---- MODULE Spec2Model ----
(***************************************************************************)
(* Model of the todo-integrator synchronisation engine                     *)
(* (TodoSynchronizer, DailyNoteManager, TodoApiClient).                    *)
(*                                                                         *)
(* A string is a sequence of characters; a character is a record           *)
(* [c, d]: c is the character itself, and the pseudo-character c = "T"     *)
(* stands for the whole text "[completion:: <date d>]" (d = 0 otherwise).  *)
(* A date is a day number.  A note is the array produced by                *)
(* content.split('\n'); a line is [k, chk, txt]: k is the kind of the      *)
(* line ("hdr" the todo section header, "head" another '#' heading,        *)
(* "blank", "text", "task"), and for a task line chk is the checkbox and   *)
(* txt the text that follows the closing bracket of the checkbox.          *)
(***************************************************************************)
EXTENDS Integers, Sequences, FiniteSets, TLC

\* ------------------------------------------------------------------ bounds
MaxFails == 1
MaxTasks == 3
MaxDay == 2
\* the longest note the todo section is still added to
MaxLines == 12
\* the clicks on the sidebar button
MaxClicks == 4

VARIABLES noteExists, noteLines, mtime, remote, nextId, fails, runs, st,
          todoSectionHeader, button, plugin

vars == <<noteExists, noteLines, mtime, remote, nextId, fails, runs, st,
          todoSectionHeader, button, plugin>>

Procs == {"manual", "timer"}

\* ------------------------------------------------------------ characters
Ch(c) == [c |-> c, d |-> 0]

Tg(d) == [c |-> "T", d |-> d]

SP == Ch(" ")

IsTag(x) == x.c = "T"

Range(s) == {s[i] : i \in 1..Len(s)}

\* first index of s whose element satisfies P, 0 when there is none
FirstIdx(s, P(_)) ==
    IF \E i \in 1..Len(s) : P(s[i])
    THEN CHOOSE i \in 1..Len(s) : P(s[i]) /\ \A j \in 1..(i-1) : ~P(s[j])
    ELSE 0

\* String.prototype.toLowerCase
toLowerCase(s) ==
    [i \in 1..Len(s) |-> IF s[i].c = "A" THEN Ch("a")
                         ELSE IF s[i].c = "B" THEN Ch("b") ELSE s[i]]

RECURSIVE trimStart(_)
trimStart(s) == IF s # <<>> /\ Head(s) = SP THEN trimStart(Tail(s)) ELSE s

RECURSIVE trimEnd(_)
trimEnd(s) ==
    IF s # <<>> /\ s[Len(s)] = SP THEN trimEnd(SubSeq(s, 1, Len(s) - 1)) ELSE s

\* String.prototype.trim
trim(s) == trimEnd(trimStart(s))

\* title.trim().toLowerCase(): the matching key of both stores
NormTitle(s) == toLowerCase(trim(s))

\* text.replace(/\[completion::\s*\d{4}-\d{2}-\d{2}\]/, ''): first match only
RemoveCompletion(s) ==
    LET i == FirstIdx(s, IsTag)
    IN  IF i = 0 THEN s ELSE SubSeq(s, 1, i - 1) \o SubSeq(s, i + 1, Len(s))

\* text.match(/\[completion::\s*(\d{4}-\d{2}-\d{2})\]/): the date, 0 = undefined
CompletionOf(s) ==
    LET i == FirstIdx(s, IsTag) IN IF i = 0 THEN 0 ELSE s[i].d

\* ------------------------------------------------------------------ lines
Line(k, chk, txt) == [k |-> k, chk |-> chk, txt |-> txt]

Blank == Line("blank", FALSE, <<>>)

\* a line whose trim() equals the configured section header
Header == Line("hdr", FALSE, <<>>)

\* DEFAULT_SETTINGS.todoSectionHeader, '## ToDo'
DefaultHeader == <<Ch("#")>>

\* the same header followed by a space, as a settings file may hold it
PaddedHeader == <<Ch("#"), SP>>

\* the line that holds the string this.todoSectionHeader: it passes the test
\* `lines[i].trim() === this.todoSectionHeader` when the header is its own
\* trim(), and is one more line of text otherwise (it fails
\* `lines[i] !== this.todoSectionHeader`, so it does not end a section)
HeaderLine ==
    IF trim(todoSectionHeader) = todoSectionHeader THEN Header
    ELSE Line("text", FALSE, todoSectionHeader)

Heading == Line("head", FALSE, <<>>)

\* `- [ ] ${taskTitle}`
TaskLine(title) == Line("task", FALSE, <<SP>> \o title)

\* line.match(/^(\s*)-\s*\[([x\s])\]\s*(.+)/)
CheckboxMatch(l) == l.k = "task" /\ Len(l.txt) >= 1

\* group 3 of the checkbox match: \s* is greedy but gives one character
\* back when the rest of the line is white space only
TaskText(l) ==
    LET t == trimStart(l.txt)
    IN  IF t # <<>> THEN t ELSE <<l.txt[Len(l.txt)]>>

\* mutant: `line` is the 1-based number of the line
ParseLineOneBased(l, i) ==
    [title |-> trim(RemoveCompletion(TaskText(l))),
     completed |-> l.chk,
     line |-> i,
     completionDate |-> CompletionOf(TaskText(l))]

\* the DailyNoteTask parsed from line i (1-based here, `line` is 0-based)
ParseLine(l, i) ==
    [title |-> trim(RemoveCompletion(TaskText(l))),
     completed |-> l.chk,
     line |-> i - 1,
     completionDate |-> CompletionOf(TaskText(l))]

\* DailyNoteManager.parseDailyNoteTodos, after the read
parseDailyNoteTodos(lines) ==
    LET idx == SelectSeq([i \in 1..Len(lines) |-> i],
                         LAMBDA i : CheckboxMatch(lines[i]))
    IN  [n \in 1..Len(idx) |-> ParseLine(lines[idx[n]], idx[n])]

\* mutant: the template of a new note holds an example task
NoteTemplateWithTask == <<Heading, Blank, Header, Line("task", FALSE, <<SP, Ch("a")>>), Blank>>

\* `# ${today}\n\n${this.todoSectionHeader}\n\n`.split('\n')
NoteTemplate == <<Heading, Blank, HeaderLine, Blank, Blank>>

\* index of the todo section header, 0 when absent (-1 in the source)
TodoSectionIndex(lines) == FirstIdx(lines, LAMBDA l : l.k = "hdr")

\* the insertion point of addTaskToTodoSection: the new line goes right
\* after position InsertAfter (after the last non-blank line of the section)
InsertAfter(lines, h) ==
    LET nxt  == {j \in (h+1)..Len(lines) : lines[j].k = "head"}
        stop == IF nxt = {} THEN Len(lines) + 1
                ELSE CHOOSE j \in nxt : \A m \in nxt : j <= m
        full == {j \in (h+1)..(stop-1) : lines[j].k # "blank"}
    IN  IF full = {} THEN h ELSE CHOOSE j \in full : \A m \in full : m <= j

\* mutant: the new line goes right below the section header
InsertTaskAtTop(lines, title) ==
    LET m == TodoSectionIndex(lines)
    IN  SubSeq(lines, 1, m) \o <<TaskLine(title)>> \o SubSeq(lines, m + 1, Len(lines))

\* mutant: the splice replaces the line at the insertion point
InsertTaskReplacing(lines, title) ==
    LET m == InsertAfter(lines, TodoSectionIndex(lines))
    IN  SubSeq(lines, 1, m) \o <<TaskLine(title)>> \o SubSeq(lines, m + 2, Len(lines))

\* lines.splice(insertIndex, 0, taskLine)
InsertTask(lines, title) ==
    LET m == InsertAfter(lines, TodoSectionIndex(lines))
    IN  SubSeq(lines, 1, m) \o <<TaskLine(title)>> \o SubSeq(lines, m + 1, Len(lines))

\* mutant: the section is put at the top of the note
WithTodoSectionFirst(lines) == <<HeaderLine, Blank>> \o lines

\* lines.push('', this.todoSectionHeader, '')
WithTodoSection(lines) == lines \o <<Blank, HeaderLine, Blank>>

\* mutant: the completion metadata is added to the text as it is
CompletedLineRaw(l, date) ==
    Line("task", TRUE, l.txt \o <<SP, Tg(date)>>)

\* `${indent}- [x] ${cleanTaskText} ${completionMetadata}`
CompletedLine(l, date) ==
    Line("task", TRUE,
         <<SP>> \o trim(RemoveCompletion(TaskText(l))) \o <<SP, Tg(date)>>)

\* ----------------------------------------------------------- remote tasks
\* a timestamp string is [d, h, z]: its day, its hour of the day, and the
\* offset from UTC (in hours) of the zone it is read in: the zone the string
\* designates ('Z' is 0), or the zone of the host when it designates none
NoTime == [d |-> 0, h |-> 0, z |-> 0]

TodoTask(id, title, status, cdt, start) ==
    [id |-> id, title |-> title, status |-> status,
     completedDateTime |-> cdt, startDateTime |-> start]

\* new Date(completedDateTime).toISOString().split('T')[0]: the day of the
\* instant in UTC
CompletionDate(cdt) ==
    LET utc == cdt.h - cdt.z
    IN  IF utc < 0 THEN cdt.d - 1 ELSE IF utc >= 24 THEN cdt.d + 1 ELSE cdt.d

\* ------------------------------------------------------------- the matcher
TitleSet(tasks) == {NormTitle(tasks[i].title) : i \in 1..Len(tasks)}

\* mutant: the titles are compared as they are, without trim and lower case
filterNewTasksExact(msftTasks, existingObsidianTasks) ==
    SelectSeq(msftTasks,
              LAMBDA m : m.title \notin {existingObsidianTasks[i].title :
                                            i \in 1..Len(existingObsidianTasks)})

filterNewTasks(msftTasks, existingObsidianTasks) ==
    SelectSeq(msftTasks,
              LAMBDA m : NormTitle(m.title) \notin TitleSet(existingObsidianTasks))

filterNewObsidianTasks(obsidianTasks, msftTasks) ==
    SelectSeq(obsidianTasks,
              LAMBDA o : NormTitle(o.title) \notin TitleSet(msftTasks))

\* ------------------------------------------------------ the sidebar button
\* SidebarButton: the status shown, isSync, buttonEl.disabled, the calls of
\* syncCallback that have not settled, the setTimeout resets that have not
\* fired, and the clicks made so far
IdleButton ==
    [status |-> "idle", isSync |-> FALSE, disabled |-> FALSE,
     running |-> 0, timers |-> 0, clicks |-> 0]

\* SidebarButton.updateSyncStatus: only 'syncing' sets the flag and disables
\* the button, the three other statuses clear the flag and enable the button
updateSyncStatus(b, status) ==
    [b EXCEPT !.status = status,
              !.isSync = (status = "syncing"),
              !.disabled = (status = "syncing")]

\* ------------------------------------------------------------- the plugin
\* TodoIntegratorPlugin: where disconnectAccount is, whether autoSyncInterval
\* holds a timer, whether the settings hold an access token
ConnectedPlugin == [pc |-> "idle", autoSyncInterval |-> TRUE, accessToken |-> TRUE]

\* stopAutoSync: clearInterval and autoSyncInterval = null
stopAutoSync(g) == [g EXCEPT !.autoSyncInterval = FALSE]

\* PluginSettings.clearAuthenticationData
clearAuthenticationData(g) == [g EXCEPT !.accessToken = FALSE]

\* --------------------------------------------- one invocation of the engine
\* an error string: its fixed prefix (kind) and the task title it quotes
Err(kind, t) == [kind |-> kind, t |-> t]

EmptyResult == [n |-> 0, errors |-> <<>>]

\* what performFullSync holds of one phase: not called, running, or returned
\* with its result; work records the items the diff selected
NoPhase == [st |-> "no", n |-> 0, errors |-> <<>>, work |-> <<>>, startDate |-> 0]

NoRet == [set |-> FALSE, success |-> FALSE, newTasksFromMsft |-> 0,
          newTasksFromObsidian |-> 0, completedTasks |-> 0, errors |-> <<>>]

IdleProc ==
    [pc |-> "idle", mode |-> "none", msftTasks |-> <<>>, dailyNoteTasks |-> <<>>,
     work |-> <<>>, i |-> 0, result |-> EmptyResult, lines |-> <<>>,
     startDate |-> 0, phases |-> [k \in 1..3 |-> NoPhase], ret |-> NoRet,
     prev |-> [k \in 1..3 |-> NoPhase], log |-> <<>>]

\* the record of one store operation (or of one settled per-item call)
\* (t: the task title it is for, n: the line or task id it addresses)
LoggedN(s, ph, op, t, n, ok) ==
    [s EXCEPT !.log = Append(@, [ph |-> ph, op |-> op, t |-> t, n |-> n, ok |-> ok])]

Logged(s, ph, op, t, ok) == LoggedN(s, ph, op, t, 0, ok)

\* the first suspension point of each phase
FirstOp(k) == CASE k = 1 -> "getTasks1" [] k = 2 -> "parse2" [] k = 3 -> "parse3"

\* mutant: the second and third await of performFullSync exchanged
NextPhaseSwapped(k) == IF k = 1 THEN 3 ELSE IF k = 3 THEN 2 ELSE 0

\* the phase performFullSync awaits after phase k (0: none, build the result)
NextPhase(k) == IF k < 3 THEN k + 1 ELSE 0

\* mutant: success looks at the first phase only, two counts exchanged
SyncResultOfSwapped(ph) ==
    [set |-> TRUE,
     success |-> Len(ph[1].errors) = 0,
     newTasksFromMsft |-> ph[2].n,
     newTasksFromObsidian |-> ph[1].n,
     completedTasks |-> ph[3].n,
     errors |-> ph[1].errors \o ph[2].errors \o ph[3].errors]

\* the SyncResult literal of performFullSync
SyncResultOf(ph) ==
    [set |-> TRUE,
     success |-> Len(ph[1].errors) = 0 /\ Len(ph[2].errors) = 0
                 /\ Len(ph[3].errors) = 0,
     newTasksFromMsft |-> ph[1].n,
     newTasksFromObsidian |-> ph[2].n,
     completedTasks |-> ph[3].n,
     errors |-> ph[1].errors \o ph[2].errors \o ph[3].errors]

\* a phase method is called: `const result = {...}`, then up to its first await
BeginPhase(s, k) ==
    [s EXCEPT !.pc = FirstOp(k), !.phases[k].st = "run", !.result = EmptyResult,
              !.msftTasks = <<>>, !.dailyNoteTasks = <<>>, !.work = <<>>,
              !.i = 0, !.lines = <<>>, !.startDate = 0]

\* `return result` of phase k, and what the caller does with it
EndPhase(s, k) ==
    LET s1 == [s EXCEPT !.phases[k] = [st |-> "ret", n |-> s.result.n,
                                       errors |-> s.result.errors,
                                       work |-> s.work,
                                       startDate |-> s.startDate]]
    IN  IF s.mode = "full" /\ NextPhase(k) # 0
        THEN BeginPhase(s1, NextPhase(k))
        ELSE [s1 EXCEPT !.pc = "done",
                        !.ret = IF s.mode = "full" THEN SyncResultOf(s1.phases)
                                ELSE NoRet]

PhaseErrKind(k) ==
    CASE k = 1 -> "msftSync" [] k = 2 -> "obsSync" [] k = 3 -> "completionSync"

\* mutant: the outer catch rethrows
PhaseErrorRethrow(s, k) == [s EXCEPT !.pc = "threw"]

\* mutant: the outer catch records the error and performFullSync returns at once
PhaseErrorAbort(s, k) ==
    LET s1 == [s EXCEPT !.phases[k] =
                   [st |-> "ret", n |-> s.result.n,
                    errors |-> Append(s.result.errors, Err(PhaseErrKind(k), <<>>)),
                    work |-> s.work, startDate |-> s.startDate]]
    IN  [s1 EXCEPT !.pc = "done", !.ret = SyncResultOf(s1.phases)]

\* the outer catch of a phase method
PhaseError(s, k) ==
    EndPhase([s EXCEPT !.result.errors = Append(@, Err(PhaseErrKind(k), <<>>))], k)

\* ---- syncMsftToObsidian: the loop over newMsftTasks
\* mutant: the appends are started together (Promise.all over the new
\* tasks) instead of one after the other
NextAddFanOut(s) ==
    IF s.i < Len(s.work)
    THEN [s EXCEPT !.i = Len(s.work), !.pc = "addRead", !.lines = <<>>]
    ELSE EndPhase(s, 1)

\* `for (const task of newMsftTasks)`: the next element, or the return
NextAdd(s) ==
    IF s.i < Len(s.work) THEN [s EXCEPT !.i = s.i + 1, !.pc = "addRead", !.lines = <<>>]
    ELSE EndPhase(s, 1)

AddOk(s) == NextAdd([s EXCEPT !.result.n = @ + 1])

\* mutant: the first append that fails is made a second time
AddErrorRetry(s) ==
    IF s.result.errors = <<>>
    THEN [s EXCEPT !.result.errors = Append(@, Err("add", s.work[s.i].title)),
                   !.pc = "addRead", !.lines = <<>>]
    ELSE NextAdd([s EXCEPT !.result.errors = Append(@, Err("add", s.work[s.i].title))])

\* mutant: the first failed append leaves the loop
AddErrorBreak(s) ==
    EndPhase([s EXCEPT !.result.errors = Append(@, Err("add", s.work[s.i].title))], 1)

\* the inner catch of the loop
AddError(s) ==
    NextAdd([s EXCEPT !.result.errors = Append(@, Err("add", s.work[s.i].title))])

\* ---- syncObsidianToMsft: the loop over newObsidianTasks
NextCreate(s) ==
    IF s.i < Len(s.work) THEN [s EXCEPT !.i = s.i + 1, !.pc = "createTask"]
    ELSE EndPhase(s, 2)

CreateOk(s) == NextCreate([s EXCEPT !.result.n = @ + 1])

\* mutant: the inner catch of the creation loop records nothing
CreateErrorSilent(s) == NextCreate(s)

\* mutant: the counter is incremented before the request settles
CreateErrorCounts(s) ==
    NextCreate([s EXCEPT !.result.n = @ + 1,
                         !.result.errors = Append(@, Err("create", s.work[s.i].title))])

CreateError(s) ==
    NextCreate([s EXCEPT !.result.errors = Append(@, Err("create", s.work[s.i].title))])

\* ---- syncCompletions
\* mutant: the search skips the tasks that are already completed
MatchingObsidianTaskIncomplete(s, m) ==
    FirstIdx(s.dailyNoteTasks,
             LAMBDA o : NormTitle(o.title) = NormTitle(m.title) /\ ~o.completed)

\* dailyNoteTasks.find(obsTask => same normalized title), 0 = undefined
MatchingObsidianTask(s, m) ==
    FirstIdx(s.dailyNoteTasks, LAMBDA o : NormTitle(o.title) = NormTitle(m.title))

\* msftTasks.find(msftTask => same normalized title), 0 = undefined
MatchingMsftTask(s, o) ==
    FirstIdx(s.msftTasks, LAMBDA m : NormTitle(m.title) = NormTitle(o.title))

\* the two conditions that guard updateTaskCompletion for msftTasks[i]
NeedsObsidianUpdate(s, i) ==
    LET m == s.msftTasks[i]
        j == MatchingObsidianTask(s, m)
    IN  /\ m.status = "completed" /\ m.completedDateTime # NoTime
        /\ j # 0 /\ ~s.dailyNoteTasks[j].completed

\* mutant: the completion date of the line is not looked at
NeedsMsftUpdateUndated(s, j) ==
    LET o == s.dailyNoteTasks[j]
        k == MatchingMsftTask(s, o)
    IN  /\ o.completed
        /\ k # 0 /\ s.msftTasks[k].status # "completed"

\* the two conditions that guard completeTask for dailyNoteTasks[j]
NeedsMsftUpdate(s, j) ==
    LET o == s.dailyNoteTasks[j]
        k == MatchingMsftTask(s, o)
    IN  /\ o.completed /\ o.completionDate # 0
        /\ k # 0 /\ s.msftTasks[k].status # "completed"

\* the second loop, from element `from` on
NextMsftCompletion(s, from) ==
    LET js == {j \in from..Len(s.dailyNoteTasks) : NeedsMsftUpdate(s, j)}
    IN  IF js = {} THEN EndPhase(s, 3)
        ELSE [s EXCEPT !.pc = "completeTask", !.lines = <<>>,
                       !.i = CHOOSE j \in js : \A m \in js : j <= m]

\* the first loop, from element `from` on
NextObsCompletion(s, from) ==
    LET is == {i \in from..Len(s.msftTasks) : NeedsObsidianUpdate(s, i)}
    IN  IF is = {} THEN NextMsftCompletion(s, 1)
        ELSE [s EXCEPT !.pc = "updRead", !.lines = <<>>,
                       !.i = CHOOSE i \in is : \A m \in is : i <= m]

UpdOk(s) == NextObsCompletion([s EXCEPT !.result.n = @ + 1], s.i + 1)

\* mutant: a failed updateTaskCompletion ends the phase with the aggregate
\* error
UpdErrorAbort(s) == PhaseError(s, 3)

UpdError(s) ==
    NextObsCompletion(
        [s EXCEPT !.result.errors = Append(@, Err("completeObs", s.msftTasks[s.i].title))],
        s.i + 1)

CompleteOk(s) == NextMsftCompletion([s EXCEPT !.result.n = @ + 1], s.i + 1)

\* mutant: a failed completeTask ends the phase with the aggregate error
CompleteErrorAbort(s) == PhaseError(s, 3)

CompleteError(s) ==
    NextMsftCompletion(
        [s EXCEPT !.result.errors =
                      Append(@, Err("completeMsft", s.dailyNoteTasks[s.i].title))],
        s.i + 1)

\* ------------------------------------------------------------ environment
\* a store call may reject; fails is the number of rejections the environment
\* may still produce (negative: no limit)
Outcomes == IF fails = 0 THEN {TRUE} ELSE {TRUE, FALSE}

Spend(ok) == fails' = IF ok \/ fails < 0 THEN fails ELSE fails - 1

\* vault.modify(file, lines.join('\n'))
VaultModify(lines) == noteLines' = lines /\ mtime' = MaxDay

NoteSame == UNCHANGED <<noteExists, noteLines, mtime>>

RemoteSame == UNCHANGED <<remote, nextId>>

\* ---------------------------------------------------------------- actions
\* performFullSync (mode "full") or one phase method called on its own
Call(s, mode) ==
    BeginPhase([IdleProc EXCEPT !.mode = mode, !.prev = s.phases],
               CASE mode \in {"full", "r2l"} -> 1
                 [] mode = "l2r" -> 2
                 [] mode = "comp" -> 3)

\* mutant: a sync starts only when no other sync is in progress
StartSingleFlight(p, mode) ==
    /\ st[p].pc = "idle"
    /\ \A q \in Procs : st[q].pc \in {"idle", "done"}
    /\ runs' = [runs EXCEPT ![p] = @ + 1]
    /\ st' = [st EXCEPT ![p] = Call(st[p], mode)]
    /\ UNCHANGED <<fails, todoSectionHeader, button, plugin>> /\ NoteSame /\ RemoteSame

\* the manual trigger or the timer calls the engine
Start(p, mode) ==
    /\ st[p].pc = "idle"
    /\ runs' = [runs EXCEPT ![p] = @ + 1]
    /\ st' = [st EXCEPT ![p] = Call(st[p], mode)]
    /\ UNCHANGED <<fails, todoSectionHeader, button, plugin>> /\ NoteSame /\ RemoteSame

\* the same method called a second time, right after it returned
Again(p) ==
    /\ st[p].pc = "done"
    /\ runs[p] = 1
    /\ runs' = [runs EXCEPT ![p] = @ + 1]
    /\ st' = [st EXCEPT ![p] = Call(st[p], st[p].mode)]
    /\ UNCHANGED <<fails, todoSectionHeader, button, plugin>> /\ NoteSame /\ RemoteSame

\* syncMsftToObsidian: todoApiClient.getTasks(), then createTodayNote up to
\* its existence test
GetTasks1(p) ==
    /\ st[p].pc = "getTasks1"
    /\ \E ok \in Outcomes :
         /\ Spend(ok)
         /\ LET s == Logged(st[p], 1, "getTasks", <<>>, ok)
            IN  st' = [st EXCEPT ![p] =
                    IF ok THEN [s EXCEPT !.msftTasks = remote,
                                         !.pc = IF noteExists THEN "parse1"
                                                ELSE "vaultCreate1"]
                    ELSE PhaseError(s, 1)]
    /\ UNCHANGED <<runs, todoSectionHeader, button, plugin>> /\ NoteSame /\ RemoteSame

\* createTodayNote: vault.create(todayNotePath, content)
VaultCreate1(p) ==
    /\ st[p].pc = "vaultCreate1"
    /\ \E ok \in Outcomes :
         /\ Spend(ok)
         /\ LET good == ok /\ ~noteExists
                s == Logged(st[p], 1, "create", <<>>, good)
            IN  /\ st' = [st EXCEPT ![p] =
                       IF good THEN [s EXCEPT !.pc = "parse1"] ELSE PhaseError(s, 1)]
                /\ IF good
                   THEN noteExists' = TRUE /\ VaultModify(NoteTemplate)
                   ELSE NoteSame
    /\ UNCHANGED <<runs, todoSectionHeader, button, plugin>> /\ RemoteSame

\* parseDailyNoteTodos(todayNotePath), filterNewTasks, and the loop's entry
Parse1(p) ==
    /\ st[p].pc = "parse1"
    /\ \E ok \in Outcomes :
         /\ Spend(ok)
         /\ LET good == ok /\ noteExists
                s == Logged(st[p], 1, "parse", <<>>, good)
                existingTasks == parseDailyNoteTodos(noteLines)
            IN  st' = [st EXCEPT ![p] =
                    IF good
                    THEN NextAdd([s EXCEPT !.dailyNoteTasks = existingTasks,
                                           !.work = filterNewTasks(s.msftTasks, existingTasks),
                                           !.i = 0])
                    ELSE PhaseError(s, 1)]
    /\ UNCHANGED <<runs, todoSectionHeader, button, plugin>> /\ NoteSame /\ RemoteSame

\* addTaskToTodoSection: vault.read, the search for the section, the splice
AddRead(p) ==
    /\ st[p].pc = "addRead"
    /\ \E ok \in Outcomes :
         /\ Spend(ok)
         /\ LET good == ok /\ noteExists
                t == st[p].work[st[p].i].title
                s == Logged(st[p], 1, "read", t, good)
            IN  st' = [st EXCEPT ![p] =
                    IF ~good THEN AddError(Logged(s, 1, "addTask", t, FALSE))
                    ELSE IF TodoSectionIndex(noteLines) = 0
                         THEN [s EXCEPT !.pc = "focsRead"]
                         ELSE [s EXCEPT !.pc = "addModify",
                                        !.lines = InsertTask(noteLines, t)]]
    /\ UNCHANGED <<runs, todoSectionHeader, button, plugin>> /\ NoteSame /\ RemoteSame

\* addTaskToTodoSection: vault.modify, then result.newTasks++
AddModify(p) ==
    /\ st[p].pc = "addModify"
    /\ \E ok \in Outcomes :
         /\ Spend(ok)
         /\ LET t == st[p].work[st[p].i].title
                s == Logged(Logged(st[p], 1, "modify", t, ok), 1, "addTask", t, ok)
            IN  /\ st' = [st EXCEPT ![p] = IF ok THEN AddOk(s) ELSE AddError(s)]
                /\ IF ok THEN VaultModify(st[p].lines) /\ UNCHANGED noteExists
                   ELSE NoteSame
    /\ UNCHANGED <<runs, todoSectionHeader, button, plugin>> /\ RemoteSame

\* findOrCreateTodoSection: vault.read and the search for the header
FocsRead(p) ==
    /\ st[p].pc = "focsRead"
    /\ \E ok \in Outcomes :
         /\ Spend(ok)
         /\ LET good == ok /\ noteExists
                t == st[p].work[st[p].i].title
                s == Logged(st[p], 1, "read", t, good)
            IN  st' = [st EXCEPT ![p] =
                    IF ~good THEN AddError(Logged(s, 1, "addTask", t, FALSE))
                    ELSE IF TodoSectionIndex(noteLines) # 0
                         THEN [s EXCEPT !.pc = "addRead"]
                         ELSE [s EXCEPT !.pc = "focsModify",
                                        !.lines = WithTodoSection(noteLines)]]
    /\ UNCHANGED <<runs, todoSectionHeader, button, plugin>> /\ NoteSame /\ RemoteSame

\* findOrCreateTodoSection: vault.modify, then addTaskToTodoSection again
\* (the note is kept within MaxLines lines)
FocsModify(p) ==
    /\ st[p].pc = "focsModify"
    /\ Len(st[p].lines) <= MaxLines
    /\ \E ok \in Outcomes :
         /\ Spend(ok)
         /\ LET t == st[p].work[st[p].i].title
                s == Logged(st[p], 1, "modify", t, ok)
            IN  /\ st' = [st EXCEPT ![p] =
                       IF ok THEN [s EXCEPT !.pc = "addRead", !.lines = <<>>]
                       ELSE AddError(Logged(s, 1, "addTask", t, FALSE))]
                /\ IF ok THEN VaultModify(st[p].lines) /\ UNCHANGED noteExists
                   ELSE NoteSame
    /\ UNCHANGED <<runs, todoSectionHeader, button, plugin>> /\ RemoteSame

\* mutant: the early return on an empty incomplete set is missing
Parse2NoShortCircuit(p) ==
    /\ st[p].pc = "parse2"
    /\ \E ok \in Outcomes :
         /\ Spend(ok)
         /\ LET good == ok /\ noteExists
                s == Logged(st[p], 2, "parse", <<>>, good)
                incompleteTasks == SelectSeq(parseDailyNoteTodos(noteLines),
                                             LAMBDA o : ~o.completed)
            IN  st' = [st EXCEPT ![p] =
                    IF ~good THEN PhaseError(s, 2)
                    ELSE [s EXCEPT !.dailyNoteTasks = incompleteTasks,
                                   !.pc = "getTasks2"]]
    /\ UNCHANGED <<runs, todoSectionHeader, button, plugin>> /\ NoteSame /\ RemoteSame

\* mutant: the completed tasks are not filtered out
Parse2AllTasks(p) ==
    /\ st[p].pc = "parse2"
    /\ \E ok \in Outcomes :
         /\ Spend(ok)
         /\ LET good == ok /\ noteExists
                s == Logged(st[p], 2, "parse", <<>>, good)
                allTasks == parseDailyNoteTodos(noteLines)
            IN  st' = [st EXCEPT ![p] =
                    IF ~good THEN PhaseError(s, 2)
                    ELSE IF Len(allTasks) = 0 THEN EndPhase(s, 2)
                    ELSE [s EXCEPT !.dailyNoteTasks = allTasks,
                                   !.pc = "getTasks2"]]
    /\ UNCHANGED <<runs, todoSectionHeader, button, plugin>> /\ NoteSame /\ RemoteSame

\* syncObsidianToMsft: parseDailyNoteTodos, the incomplete filter, the
\* early return
Parse2(p) ==
    /\ st[p].pc = "parse2"
    /\ \E ok \in Outcomes :
         /\ Spend(ok)
         /\ LET good == ok /\ noteExists
                s == Logged(st[p], 2, "parse", <<>>, good)
                incompleteTasks == SelectSeq(parseDailyNoteTodos(noteLines),
                                             LAMBDA o : ~o.completed)
            IN  st' = [st EXCEPT ![p] =
                    IF ~good THEN PhaseError(s, 2)
                    ELSE IF Len(incompleteTasks) = 0 THEN EndPhase(s, 2)
                    ELSE [s EXCEPT !.dailyNoteTasks = incompleteTasks,
                                   !.pc = "getTasks2"]]
    /\ UNCHANGED <<runs, todoSectionHeader, button, plugin>> /\ NoteSame /\ RemoteSame

\* syncObsidianToMsft: todoApiClient.getTasks() and filterNewObsidianTasks
GetTasks2(p) ==
    /\ st[p].pc = "getTasks2"
    /\ \E ok \in Outcomes :
         /\ Spend(ok)
         /\ LET s == Logged(st[p], 2, "getTasks", <<>>, ok)
            IN  st' = [st EXCEPT ![p] =
                    IF ok THEN [s EXCEPT !.msftTasks = remote,
                                         !.work = filterNewObsidianTasks(s.dailyNoteTasks, remote),
                                         !.pc = "modDate2"]
                    ELSE PhaseError(s, 2)]
    /\ UNCHANGED <<runs, todoSectionHeader, button, plugin>> /\ NoteSame /\ RemoteSame

\* mutant: the start date is today's date, not the note's modification date
ModDate2Today(p) ==
    /\ st[p].pc = "modDate2"
    /\ \E ok \in Outcomes :
         /\ Spend(ok)
         /\ LET good == ok /\ noteExists
                s == Logged(st[p], 2, "mtime", <<>>, good)
            IN  st' = [st EXCEPT ![p] =
                    IF good THEN NextCreate([s EXCEPT !.startDate = MaxDay, !.i = 0])
                    ELSE PhaseError(s, 2)]
    /\ UNCHANGED <<runs, todoSectionHeader, button, plugin>> /\ NoteSame /\ RemoteSame

\* syncObsidianToMsft: getFileModificationDate and the loop's entry
ModDate2(p) ==
    /\ st[p].pc = "modDate2"
    /\ \E ok \in Outcomes :
         /\ Spend(ok)
         /\ LET good == ok /\ noteExists
                s == LoggedN(st[p], 2, "mtime", <<>>, mtime, good)
            IN  st' = [st EXCEPT ![p] =
                    IF good THEN NextCreate([s EXCEPT !.startDate = mtime, !.i = 0])
                    ELSE PhaseError(s, 2)]
    /\ UNCHANGED <<runs, todoSectionHeader, button, plugin>> /\ NoteSame /\ RemoteSame

\* mutant: the title is not validated, the request is always sent
CreateTaskUnvalidated(p) ==
    /\ st[p].pc = "createTask"
    /\ LET t == st[p].work[st[p].i].title
       IN  \E ok \in Outcomes :
             /\ Spend(ok)
             /\ LET s == Logged(Logged(st[p], 2, "post", t, ok),
                                2, "createTask", t, ok)
                IN  st' = [st EXCEPT ![p] =
                              IF ok THEN CreateOk(s) ELSE CreateError(s)]
             /\ IF ok
                THEN /\ remote' = Append(remote,
                            TodoTask(nextId, trim(t), "notStarted", NoTime,
                                     st[p].startDate))
                     /\ nextId' = nextId + 1
                ELSE RemoteSame
    /\ UNCHANGED <<runs, todoSectionHeader, button, plugin>> /\ NoteSame

\* mutant: the modification date is read again for every task
CreateTaskRereads(p) ==
    /\ st[p].pc = "createTask"
    /\ LET t == st[p].work[st[p].i].title
       IN  IF trim(t) = <<>>
           THEN \* 'Task title cannot be empty', thrown before any request
                /\ st' = [st EXCEPT ![p] =
                             CreateError(Logged(st[p], 2, "createTask", t, FALSE))]
                /\ UNCHANGED fails /\ RemoteSame
           ELSE \E ok \in Outcomes :
                  /\ Spend(ok)
                  /\ LET s == Logged(Logged(st[p], 2, "post", t, ok),
                                     2, "createTask", t, ok)
                     IN  st' = [st EXCEPT ![p] =
                                   IF ok THEN CreateOk(s) ELSE CreateError(s)]
                  /\ IF ok
                     THEN /\ remote' = Append(remote,
                                 TodoTask(nextId, trim(t), "notStarted", NoTime,
                                          mtime))
                          /\ nextId' = nextId + 1
                     ELSE RemoteSame
    /\ UNCHANGED <<runs, todoSectionHeader, button, plugin>> /\ NoteSame

\* TodoApiClient.createTask(task.title, startDate)
CreateTask(p) ==
    /\ st[p].pc = "createTask"
    /\ LET t == st[p].work[st[p].i].title
       IN  IF trim(t) = <<>>
           THEN \* 'Task title cannot be empty', thrown before any request
                /\ st' = [st EXCEPT ![p] =
                             CreateError(Logged(st[p], 2, "createTask", t, FALSE))]
                /\ UNCHANGED fails /\ RemoteSame
           ELSE \E ok \in Outcomes :
                  /\ Spend(ok)
                  /\ LET s == Logged(Logged(st[p], 2, "post", t, ok),
                                     2, "createTask", t, ok)
                     IN  st' = [st EXCEPT ![p] =
                                   IF ok THEN CreateOk(s) ELSE CreateError(s)]
                  /\ IF ok
                     THEN /\ remote' = Append(remote,
                                 TodoTask(nextId, trim(t), "notStarted", NoTime,
                                          st[p].startDate))
                          /\ nextId' = nextId + 1
                     ELSE RemoteSame
    /\ UNCHANGED <<runs, todoSectionHeader, button, plugin>> /\ NoteSame

\* syncCompletions: parseDailyNoteTodos
Parse3(p) ==
    /\ st[p].pc = "parse3"
    /\ \E ok \in Outcomes :
         /\ Spend(ok)
         /\ LET good == ok /\ noteExists
                s == Logged(st[p], 3, "parse", <<>>, good)
            IN  st' = [st EXCEPT ![p] =
                    IF good THEN [s EXCEPT !.dailyNoteTasks = parseDailyNoteTodos(noteLines),
                                           !.pc = "getTasks3"]
                    ELSE PhaseError(s, 3)]
    /\ UNCHANGED <<runs, todoSectionHeader, button, plugin>> /\ NoteSame /\ RemoteSame

\* syncCompletions: todoApiClient.getTasks() and the entry of the first loop
GetTasks3(p) ==
    /\ st[p].pc = "getTasks3"
    /\ \E ok \in Outcomes :
         /\ Spend(ok)
         /\ LET s == Logged(st[p], 3, "getTasks", <<>>, ok)
            IN  st' = [st EXCEPT ![p] =
                    IF ok THEN NextObsCompletion([s EXCEPT !.msftTasks = remote], 1)
                    ELSE PhaseError(s, 3)]
    /\ UNCHANGED <<runs, todoSectionHeader, button, plugin>> /\ NoteSame /\ RemoteSame

\* mutant: the line is not tested for a checkbox before it is rewritten
UpdReadUnchecked(p) ==
    /\ st[p].pc = "updRead"
    /\ \E ok \in Outcomes :
         /\ Spend(ok)
         /\ LET m == st[p].msftTasks[st[p].i]
                o == st[p].dailyNoteTasks[MatchingObsidianTask(st[p], m)]
                ln == o.line + 1
                date == CompletionDate(m.completedDateTime)
                good == ok /\ noteExists /\ o.line < Len(noteLines)
                s == LoggedN(st[p], 3, "read", m.title, o.line, ok /\ noteExists)
            IN  st' = [st EXCEPT ![p] =
                    IF good
                    THEN [s EXCEPT !.pc = "updModify",
                                   !.lines = [noteLines EXCEPT ![ln] =
                                       IF CheckboxMatch(noteLines[ln])
                                       THEN CompletedLine(noteLines[ln], date)
                                       ELSE Line("task", TRUE, <<SP, Tg(date)>>)]]
                    ELSE UpdError(LoggedN(s, 3, "updateTaskCompletion", m.title, o.line, FALSE))]
    /\ UNCHANGED <<runs, todoSectionHeader, button, plugin>> /\ NoteSame /\ RemoteSame

\* updateTaskCompletion: vault.read, the range and checkbox tests, the rewrite
UpdRead(p) ==
    /\ st[p].pc = "updRead"
    /\ \E ok \in Outcomes :
         /\ Spend(ok)
         /\ LET m == st[p].msftTasks[st[p].i]
                o == st[p].dailyNoteTasks[MatchingObsidianTask(st[p], m)]
                ln == o.line + 1
                good == /\ ok /\ noteExists
                        /\ o.line < Len(noteLines)
                        /\ CheckboxMatch(noteLines[ln])
                s == LoggedN(st[p], 3, "read", m.title, o.line, ok /\ noteExists)
            IN  st' = [st EXCEPT ![p] =
                    IF good
                    THEN [s EXCEPT !.pc = "updModify",
                                   !.lines = [noteLines EXCEPT ![ln] =
                                       CompletedLine(noteLines[ln],
                                                     CompletionDate(m.completedDateTime))]]
                    ELSE UpdError(LoggedN(s, 3, "updateTaskCompletion", m.title, o.line, FALSE))]
    /\ UNCHANGED <<runs, todoSectionHeader, button, plugin>> /\ NoteSame /\ RemoteSame

\* updateTaskCompletion: vault.modify, then result.completedTasks++
UpdModify(p) ==
    /\ st[p].pc = "updModify"
    /\ \E ok \in Outcomes :
         /\ Spend(ok)
         /\ LET m == st[p].msftTasks[st[p].i]
                ln == st[p].dailyNoteTasks[MatchingObsidianTask(st[p], m)].line
                s == LoggedN(LoggedN(st[p], 3, "modify", m.title, ln, ok),
                             3, "updateTaskCompletion", m.title, ln, ok)
            IN  /\ st' = [st EXCEPT ![p] = IF ok THEN UpdOk(s) ELSE UpdError(s)]
                /\ IF ok THEN VaultModify(st[p].lines) /\ UNCHANGED noteExists
                   ELSE NoteSame
    /\ UNCHANGED <<runs, todoSectionHeader, button, plugin>> /\ RemoteSame

\* TodoApiClient.completeTask(matchingMsftTask.id)
CompleteTask(p) ==
    /\ st[p].pc = "completeTask"
    /\ \E ok \in Outcomes :
         /\ Spend(ok)
         /\ LET o == st[p].dailyNoteTasks[st[p].i]
                id == st[p].msftTasks[MatchingMsftTask(st[p], o)].id
                good == ok /\ \E k \in 1..Len(remote) : remote[k].id = id
                s == LoggedN(LoggedN(st[p], 3, "patch", o.title, id, good),
                             3, "completeTask", o.title, id, good)
            IN  /\ st' = [st EXCEPT ![p] = IF good THEN CompleteOk(s) ELSE CompleteError(s)]
                /\ IF good
                   THEN /\ remote' = [k \in 1..Len(remote) |->
                               IF remote[k].id = id
                               THEN [remote[k] EXCEPT !.status = "completed",
                                        !.completedDateTime = [d |-> MaxDay, h |-> 0, z |-> 0]]
                               ELSE remote[k]]
                        /\ UNCHANGED nextId
                   ELSE RemoteSame
    /\ UNCHANGED <<runs, todoSectionHeader, button, plugin>> /\ NoteSame

\* ---------------------------------------------------------- initial states
a == <<Ch("a")>>

b == <<Ch("b")>>

\* titles and states a remote task may have before the sync
RemotePool ==
    {[title |-> a, status |-> "notStarted", cdt |-> NoTime],
     [title |-> <<Ch("A"), SP>>, status |-> "completed", cdt |-> [d |-> 1, h |-> 10, z |-> 0]],
     [title |-> b, status |-> "completed", cdt |-> NoTime],
     [title |-> a \o <<SP, Tg(1)>>, status |-> "notStarted", cdt |-> NoTime]}

\* task lines the note may hold before the sync
LocalPool ==
    {TaskLine(a),
     Line("task", TRUE, <<SP>> \o a \o <<SP, Tg(1)>>),
     Line("task", TRUE, <<SP, Ch("A")>>),
     TaskLine(b)}

BSeq(S, n) == UNION {[1..k -> S] : k \in 0..n}

\* the notes that hold the task lines L
Layouts(L) ==
    {<<Heading, Blank, Header>> \o L \o <<Blank>>,
     <<Heading>> \o L,
     <<Header>> \o L \o <<Blank, Heading, Line("text", FALSE, <<>>)>>}

\* at most n tasks in the two stores together
InitStores(n) ==
    /\ \E r \in BSeq(RemotePool, n) :
         /\ remote = [i \in 1..Len(r) |->
                        TodoTask(i, r[i].title, r[i].status, r[i].cdt, 0)]
         /\ nextId = Len(r) + 1
         /\ \E L \in BSeq(LocalPool, n - Len(r)) :
              /\ \/ noteExists = TRUE /\ noteLines \in Layouts(L) /\ mtime = 1
                 \/ L = <<>> /\ noteExists = FALSE /\ noteLines = <<>> /\ mtime = 0
    /\ runs = [p \in Procs |-> 0]
    /\ st = [p \in Procs |-> IdleProc]
    /\ todoSectionHeader = DefaultHeader
    /\ button = IdleButton /\ plugin = ConnectedPlugin

Init == InitStores(MaxTasks) /\ fails = MaxFails

\* the steps of syncMsftToObsidian
Step1(p) ==
    \/ GetTasks1(p) \/ VaultCreate1(p) \/ Parse1(p)
    \/ AddRead(p) \/ AddModify(p) \/ FocsRead(p) \/ FocsModify(p)

\* the steps of syncObsidianToMsft
Step2(p) == Parse2(p) \/ GetTasks2(p) \/ ModDate2(p) \/ CreateTask(p)

\* the steps of syncCompletions
Step3(p) ==
    \/ Parse3(p) \/ GetTasks3(p) \/ UpdRead(p) \/ UpdModify(p) \/ CompleteTask(p)

Step(p) == Step1(p) \/ Step2(p) \/ Step3(p)

\* one performFullSync invocation
Next == Start("manual", "full") \/ Step("manual")

Spec == Init /\ [][Next]_vars

\* the same invocation when every store call may reject
InitAnyFail == InitStores(MaxTasks - 1) /\ fails = -1

SpecAnyFail == InitAnyFail /\ [][Next]_vars

\* syncMsftToObsidian called twice back-to-back, nothing else touching the
\* stores
InitTwice == InitStores(MaxTasks) /\ fails = MaxFails

NextTwice == Start("manual", "r2l") \/ Again("manual") \/ Step1("manual")

SpecTwice == InitTwice /\ [][NextTwice]_vars

\* the manual trigger and the timer both call performFullSync; their steps
\* interleave at the awaits
InitConc == InitStores(MaxTasks - 1) /\ fails = 0

NextConc == \E p \in Procs : Start(p, "full") \/ Step(p)

SpecConc == InitConc /\ [][NextConc]_vars

\* notes whose task lines L stand below the todo section, under a later
\* heading (parseDailyNoteTodos scans the whole note)
LayoutsBelow(L) == {<<Header, Heading>> \o L, <<Heading>> \o L}

\* syncCompletions of the manual trigger while the timer's sync is in its
\* first phase and appends lines to the same note
InitWriter ==
    /\ \E r \in BSeq(RemotePool, MaxTasks - 1) :
         /\ remote = [i \in 1..Len(r) |->
                        TodoTask(i, r[i].title, r[i].status, r[i].cdt, 0)]
         /\ nextId = Len(r) + 1
    /\ \E L \in BSeq(LocalPool, MaxTasks - 1) :
         \/ noteExists = TRUE /\ noteLines \in LayoutsBelow(L) /\ mtime = 1
         \/ L = <<>> /\ noteExists = FALSE /\ noteLines = <<>> /\ mtime = 0
    /\ runs = [p \in Procs |-> 0]
    /\ st = [p \in Procs |-> IdleProc]
    /\ todoSectionHeader = DefaultHeader
    /\ button = IdleButton /\ plugin = ConnectedPlugin
    /\ fails = 0

NextWriter ==
    \/ Start("manual", "comp") \/ Step3("manual")
    \/ Start("timer", "r2l") \/ Step1("timer")

SpecWriter == InitWriter /\ [][NextWriter]_vars

\* syncObsidianToMsft called on its own, every store call may reject
InitL2R == InitStores(MaxTasks) /\ fails = -1

NextL2R == Start("manual", "l2r") \/ Step2("manual")

SpecL2R == InitL2R /\ [][NextL2R]_vars

\* syncObsidianToMsft of the manual trigger while the timer's sync is in its
\* first phase and writes to the same note
InitL2RWriter == InitStores(MaxTasks) /\ fails = 0

NextL2RWriter ==
    \/ Start("manual", "l2r") \/ Step2("manual")
    \/ Start("timer", "r2l") \/ Step1("timer")

SpecL2RWriter == InitL2RWriter /\ [][NextL2RWriter]_vars

\* task lines whose parsed title is empty: `- [ ]` followed by two spaces,
\* and `- [ ] [completion:: <date>]`
BlankPool ==
    {TaskLine(a),
     Line("task", FALSE, <<SP, SP>>),
     Line("task", FALSE, <<SP, Tg(1)>>)}

\* syncObsidianToMsft on a note that may hold task lines without a title
InitBlank ==
    /\ \E r \in BSeq(RemotePool, MaxTasks - 2) :
         /\ remote = [i \in 1..Len(r) |->
                        TodoTask(i, r[i].title, r[i].status, r[i].cdt, 0)]
         /\ nextId = Len(r) + 1
    /\ \E L \in BSeq(BlankPool, MaxTasks) :
         noteExists = TRUE /\ noteLines \in Layouts(L) /\ mtime = 1
    /\ runs = [p \in Procs |-> 0]
    /\ st = [p \in Procs |-> IdleProc]
    /\ todoSectionHeader = DefaultHeader
    /\ button = IdleButton /\ plugin = ConnectedPlugin
    /\ fails = MaxFails

SpecBlank == InitBlank /\ [][NextL2R]_vars

\* completed remote tasks whose timestamp is '...T10:00:00Z', a string
\* without designator read on a host nine hours east of UTC, and a string
\* with the designator -05:00; and a task that is not completed
ZonePool ==
    {[title |-> a, status |-> "completed", cdt |-> [d |-> 1, h |-> 10, z |-> 0]],
     [title |-> a, status |-> "completed", cdt |-> [d |-> 2, h |-> 1, z |-> 9]],
     [title |-> a, status |-> "completed", cdt |-> [d |-> 1, h |-> 23, z |-> -5]],
     [title |-> b, status |-> "notStarted", cdt |-> NoTime]}

ZoneLocalPool == {TaskLine(a), Line("task", TRUE, <<SP>> \o b \o <<SP, Tg(1)>>)}

\* syncCompletions called on its own, remote completion timestamps of any
\* zone, no store call rejects
InitZone ==
    /\ \E r \in BSeq(ZonePool, MaxTasks - 1) :
         /\ remote = [i \in 1..Len(r) |->
                        TodoTask(i, r[i].title, r[i].status, r[i].cdt, 0)]
         /\ nextId = Len(r) + 1
    /\ \E L \in BSeq(ZoneLocalPool, MaxTasks - 1) :
         noteExists = TRUE /\ noteLines \in Layouts(L) /\ mtime = 1
    /\ runs = [p \in Procs |-> 0]
    /\ st = [p \in Procs |-> IdleProc]
    /\ todoSectionHeader = DefaultHeader
    /\ button = IdleButton /\ plugin = ConnectedPlugin
    /\ fails = 0

NextZone == Start("manual", "comp") \/ Step3("manual")

SpecZone == InitZone /\ [][NextZone]_vars

\* performFullSync called twice back-to-back, nothing else touching the
\* stores, no store call rejects
InitFullTwice == InitStores(MaxTasks) /\ fails = 0

NextFullTwice == Start("manual", "full") \/ Again("manual") \/ Step("manual")

SpecFullTwice == InitFullTwice /\ [][NextFullTwice]_vars

\* the task list is edited elsewhere while syncCompletions holds its
\* snapshot: remote task k is deleted, and completeTask on its id answers 404
RemoteTaskDeleted ==
    /\ st["manual"].pc \in {"updRead", "updModify", "completeTask"}
    /\ \E k \in 1..Len(remote) :
           remote' = SubSeq(remote, 1, k - 1) \o SubSeq(remote, k + 1, Len(remote))
    /\ UNCHANGED <<nextId, fails, runs, st, todoSectionHeader, button, plugin>> /\ NoteSame

\* the note is edited elsewhere while syncCompletions holds its snapshot: a
\* task line is removed, so that the line indexes of the snapshot are stale
NoteLineRemoved ==
    /\ st["manual"].pc \in {"updRead", "completeTask"}
    /\ noteExists
    /\ \E i \in 1..Len(noteLines) :
           /\ CheckboxMatch(noteLines[i])
           /\ VaultModify(SubSeq(noteLines, 1, i - 1)
                          \o SubSeq(noteLines, i + 1, Len(noteLines)))
    /\ UNCHANGED <<noteExists, fails, runs, st, todoSectionHeader, button, plugin>> /\ RemoteSame

\* syncCompletions while both stores are edited elsewhere; no store call
\* rejects for another reason
InitVanish ==
    /\ \E r \in BSeq(RemotePool, MaxTasks - 1) :
         /\ remote = [i \in 1..Len(r) |->
                        TodoTask(i, r[i].title, r[i].status, r[i].cdt, 0)]
         /\ nextId = Len(r) + 1
    /\ \E L \in BSeq(LocalPool, MaxTasks - 1) :
         /\ noteExists = TRUE /\ mtime = 1
         /\ noteLines = <<Heading, Blank, Header>> \o L \o <<Blank>>
    /\ runs = [p \in Procs |-> 0]
    /\ st = [p \in Procs |-> IdleProc]
    /\ todoSectionHeader = DefaultHeader
    /\ button = IdleButton /\ plugin = ConnectedPlugin
    /\ fails = 0

NextVanish ==
    \/ Start("manual", "comp") \/ Step3("manual")
    \/ RemoteTaskDeleted \/ NoteLineRemoved

SpecVanish == InitVanish /\ [][NextVanish]_vars

\* performFullSync called twice back-to-back while some store calls reject,
\* nothing else touching the stores
InitSeq == InitStores(MaxTasks - 1) /\ fails = MaxFails

SpecSeq == InitSeq /\ [][NextFullTwice]_vars

\* syncMsftToObsidian with the section header as the settings file holds it:
\* the default, or the default followed by a space.  With a header that is
\* not its own trim() no line of a note passes the header test, so the notes
\* hold no header line
InitHeader ==
    /\ \E r \in BSeq(RemotePool, MaxTasks - 1) :
         /\ remote = [i \in 1..Len(r) |->
                        TodoTask(i, r[i].title, r[i].status, r[i].cdt, 0)]
         /\ nextId = Len(r) + 1
    /\ todoSectionHeader \in {DefaultHeader, PaddedHeader}
    /\ button = IdleButton /\ plugin = ConnectedPlugin
    /\ \E L \in BSeq(LocalPool, MaxTasks - 2) :
         \/ /\ noteExists = TRUE /\ mtime = 1
            /\ noteLines \in {<<Heading>> \o L, <<Heading, Blank, HeaderLine>> \o L}
         \/ L = <<>> /\ noteExists = FALSE /\ noteLines = <<>> /\ mtime = 0
    /\ runs = [p \in Procs |-> 0]
    /\ st = [p \in Procs |-> IdleProc]
    /\ fails = MaxFails

NextHeader == Start("manual", "r2l") \/ Step1("manual")

SpecHeader == InitHeader /\ [][NextHeader]_vars

\* everything of the engine and its stores
engine == <<noteExists, noteLines, mtime, remote, nextId, fails, runs, st,
            todoSectionHeader>>

\* a click on the sidebar button (a disabled button gets no click event):
\* onSyncButtonClick up to `await this.syncCallback()`
onSyncButtonClick ==
    /\ ~button.disabled
    /\ button.clicks < MaxClicks
    /\ button' = IF button.isSync
                 THEN [button EXCEPT !.clicks = @ + 1]
                 ELSE [updateSyncStatus(button, "syncing")
                          EXCEPT !.clicks = @ + 1, !.running = @ + 1]
    /\ UNCHANGED <<engine, plugin>>

\* a call of syncCallback settles: the rest of the try block, or the catch
\* block; both set a timer that resets the status
SyncCallbackSettles ==
    /\ button.running > 0
    /\ \E ok \in BOOLEAN :
           button' = [updateSyncStatus(button, IF ok THEN "success" ELSE "error")
                         EXCEPT !.running = @ - 1, !.timers = @ + 1]
    /\ UNCHANGED <<engine, plugin>>

\* a setTimeout callback fires: updateSyncStatus('idle')
ResetTimerFires ==
    /\ button.timers > 0
    /\ button' = [updateSyncStatus(button, "idle") EXCEPT !.timers = @ - 1]
    /\ UNCHANGED <<engine, plugin>>

\* the sidebar button alone, its syncCallback being any promise
InitButton == InitStores(0) /\ fails = 0

NextButton == onSyncButtonClick \/ SyncCallbackSettles \/ ResetTimerFires

SpecButton == InitButton /\ [][NextButton]_vars

\* disconnectAccount is called: up to `await this.authManager.logout()`
DisconnectAccount ==
    /\ plugin.pc = "idle"
    /\ plugin' = [plugin EXCEPT !.pc = "logout"]
    /\ UNCHANGED <<engine, button>>

\* logout() resolves (it catches its own errors); clearAuthenticationData(),
\* up to `await this.pluginSettings.saveSettings(...)`
LogoutSettles ==
    /\ plugin.pc = "logout"
    /\ plugin' = [clearAuthenticationData(plugin) EXCEPT !.pc = "save"]
    /\ UNCHANGED <<engine, button>>

\* saveSettings resolves: stopAutoSync() and the return; or it rejects (the
\* settings are invalid, the data file cannot be written): the catch block
SaveSettingsSettles ==
    /\ plugin.pc = "save"
    /\ \E ok \in BOOLEAN :
           plugin' = IF ok THEN [stopAutoSync(plugin) EXCEPT !.pc = "returned"]
                     ELSE [plugin EXCEPT !.pc = "returned"]
    /\ UNCHANGED <<engine, button>>

\* the setInterval callback of startAutoSync: performFullSync, whatever the
\* settings hold
AutoSyncTick ==
    /\ plugin.autoSyncInterval
    /\ Start("timer", "full")

\* the account is disconnected while auto-sync is on
InitDisconnect == InitStores(MaxTasks - 1) /\ fails = 0

NextDisconnect ==
    \/ DisconnectAccount \/ LogoutSettles \/ SaveSettingsSettles
    \/ AutoSyncTick \/ Step("timer")

SpecDisconnect == InitDisconnect /\ [][NextDisconnect]_vars

\* one performFullSync with any configured header, every store call settling:
\* a step that is enabled is eventually taken
InitTerm ==
    /\ \E r \in BSeq(RemotePool, MaxTasks - 2) :
         /\ remote = [i \in 1..Len(r) |->
                        TodoTask(i, r[i].title, r[i].status, r[i].cdt, 0)]
         /\ nextId = Len(r) + 1
    /\ todoSectionHeader \in {DefaultHeader, PaddedHeader}
    /\ button = IdleButton /\ plugin = ConnectedPlugin
    /\ \E L \in BSeq(LocalPool, MaxTasks - 2) :
         \/ /\ noteExists = TRUE /\ mtime = 1
            /\ noteLines \in {<<Heading>> \o L, <<Heading, Blank, HeaderLine>> \o L}
         \/ L = <<>> /\ noteExists = FALSE /\ noteLines = <<>> /\ mtime = 0
    /\ runs = [p \in Procs |-> 0]
    /\ st = [p \in Procs |-> IdleProc]
    /\ fails = MaxFails

NextTerm == Start("manual", "full") \/ Step("manual")

SpecTerm == InitTerm /\ [][NextTerm]_vars /\ WF_vars(Step("manual"))

\* ------------------------------------------------------------------ claims
PcPhase(pc) ==
    CASE pc \in {"getTasks1", "vaultCreate1", "parse1", "addRead", "addModify",
                 "focsRead", "focsModify"} -> 1
      [] pc \in {"parse2", "getTasks2", "modDate2", "createTask"} -> 2
      [] pc \in {"parse3", "getTasks3", "updRead", "updModify", "completeTask"} -> 3
      [] OTHER -> 0

\* the log entries of phase k for operation op
Calls(s, k, op) == SelectSeq(s.log, LAMBDA e : e.ph = k /\ e.op = op)

Good(calls) == SelectSeq(calls, LAMBDA e : e.ok)

Bad(calls) == SelectSeq(calls, LAMBDA e : ~e.ok)

\* the error strings the failed calls must have produced
ErrsOf(kind, calls) ==
    LET bad == Bad(calls) IN [i \in 1..Len(bad) |-> Err(kind, bad[i].t)]

PhaseLevelOps == {"getTasks", "create", "parse", "mtime"}

ItemCalls == {"addTask", "createTask", "updateTaskCompletion", "completeTask"}

\* phase k met a failure of one of its phase-level operations
PhaseFailed(s, k) ==
    \E i \in 1..Len(s.log) :
        s.log[i].ph = k /\ s.log[i].op \in PhaseLevelOps /\ ~s.log[i].ok

\* C1: within one performFullSync the phases run in the order 1, 2, 3: a phase
\* is called only when every earlier phase has returned, at most one phase is
\* running, the store operations appear in phase order, and the operation in
\* flight belongs to the running phase.
C1_PhaseOrder ==
    \A p \in Procs :
        LET s == st[p]
        IN  s.mode = "full" =>
              /\ \A k \in 1..3 : s.phases[k].st # "no" =>
                     \A j \in 1..(k-1) : s.phases[j].st = "ret"
              /\ \A j, k \in 1..3 :
                     (s.phases[j].st = "run" /\ s.phases[k].st = "run") => j = k
              /\ \A i \in 2..Len(s.log) : s.log[i-1].ph <= s.log[i].ph
              /\ s.log # <<>> => s.phases[s.log[Len(s.log)].ph].st # "no"
              /\ \A k \in 1..3 : (s.phases[k].st = "run") <=> (PcPhase(s.pc) = k)

C1_Witness ==
    \E p \in Procs :
        /\ st[p].pc = "done" /\ st[p].mode = "full"
        /\ {st[p].log[i].ph : i \in 1..Len(st[p].log)} = {1, 2, 3}
        /\ \E i \in 1..Len(st[p].log) : st[p].log[i].op = "modify"
        /\ \E i \in 1..Len(st[p].log) : st[p].log[i].op = "post"

\* C2: performFullSync never ends with an exception: whichever store calls
\* reject, it ends by returning a SyncResult, and the rejected calls show
\* only as error strings, one for each call of the engine that failed.
C2_NeverThrows ==
    \A p \in Procs :
        LET s == st[p]
            failed == SelectSeq(s.log, LAMBDA e :
                          ~e.ok /\ e.op \in PhaseLevelOps \cup ItemCalls)
        IN  /\ s.pc # "threw"
            /\ s.ret.set <=> (s.pc = "done" /\ s.mode = "full")
            /\ s.ret.set => Len(s.ret.errors) = Len(failed)

C2_Witness ==
    \E p \in Procs :
        /\ st[p].ret.set
        /\ \A k \in 1..3 : PhaseFailed(st[p], k)

\* C3: success is true exactly when the three phases reported no error, the
\* three counts are the created counts of phases 1, 2 and 3 (the appends,
\* creations and completions that succeeded), and errors is the
\* concatenation of the three error lists in phase order.
C3_ResultAggregation ==
    \A p \in Procs :
        LET s == st[p]
        IN  s.ret.set =>
              /\ s.ret.success = (\A k \in 1..3 : s.phases[k].errors = <<>>)
              /\ s.ret.newTasksFromMsft = s.phases[1].n
              /\ s.ret.newTasksFromObsidian = s.phases[2].n
              /\ s.ret.completedTasks = s.phases[3].n
              /\ s.ret.errors = s.phases[1].errors \o s.phases[2].errors
                                \o s.phases[3].errors
              /\ s.ret.newTasksFromMsft = Len(Good(Calls(s, 1, "addTask")))
              /\ s.ret.newTasksFromObsidian = Len(Good(Calls(s, 2, "createTask")))
              /\ s.ret.completedTasks =
                     Len(Good(Calls(s, 3, "updateTaskCompletion")))
                     + Len(Good(Calls(s, 3, "completeTask")))

C3_Witness ==
    \E p \in Procs :
        /\ st[p].ret.set /\ ~st[p].ret.success
        /\ st[p].ret.newTasksFromMsft = 1
        /\ st[p].ret.newTasksFromObsidian = 2
        /\ st[p].phases[1].errors = <<>> /\ st[p].phases[2].errors = <<>>

\* C4: a phase whose phase-level operation failed (the task list fetch, the
\* creation or the read of the note, the modification date) returns
\* created = 0 and exactly one aggregate error, and the next phase of the
\* same performFullSync is still called, so that all three phases have
\* returned when the invocation ends.
C4_PhaseLevelFailure ==
    \A p \in Procs :
        LET s == st[p]
        IN  s.mode = "full" =>
              \A k \in 1..3 :
                  (s.phases[k].st = "ret" /\ PhaseFailed(s, k)) =>
                      /\ s.phases[k].n = 0
                      /\ s.phases[k].errors = <<Err(PhaseErrKind(k), <<>>)>>
                      /\ k < 3 => s.phases[k+1].st # "no"
                      /\ s.pc = "done" =>
                             \A j \in 1..3 : s.phases[j].st = "ret"

C4_Witness ==
    \E p \in Procs :
        /\ st[p].pc = "done" /\ st[p].mode = "full"
        /\ PhaseFailed(st[p], 1)
        /\ Good(Calls(st[p], 2, "createTask")) # <<>>
        /\ Calls(st[p], 3, "getTasks") # <<>>

\* C5: in syncMsftToObsidian every task of newMsftTasks gets exactly one
\* append attempt, in order, whether or not an earlier append failed; a
\* failed append is recorded as one error string with the task's title, and
\* newTasks is the number of appends that succeeded.
C5_AppendFailureIsolated ==
    \A p \in Procs :
        LET s == st[p]
            calls == Calls(s, 1, "addTask")
            w == s.phases[1].work
        IN  s.phases[1].st = "ret" =>
              /\ [i \in 1..Len(calls) |-> calls[i].t] = [i \in 1..Len(w) |-> w[i].title]
              /\ s.phases[1].n = Len(Good(calls))
              /\ ~PhaseFailed(s, 1) => s.phases[1].errors = ErrsOf("add", calls)

C5_Witness ==
    \E p \in Procs :
        LET calls == Calls(st[p], 1, "addTask")
        IN  /\ st[p].phases[1].st = "ret"
            /\ Len(calls) = 2 /\ ~calls[1].ok /\ calls[2].ok
            /\ st[p].phases[1].n = 1
            /\ Len(st[p].phases[1].errors) = 1

\* C6: when in one syncObsidianToMsft run some creations fail and others
\* succeed, newTasks counts the creations that succeeded, there is exactly
\* one error string per failed creation and it names the failed task's
\* title, the SyncResult has success = false, and every task that was
\* created is still in the remote list (there is no rollback).
C6_CreateFailureIsolated ==
    \A p \in Procs :
        LET s == st[p]
            calls == Calls(s, 2, "createTask")
        IN  (s.phases[2].st = "ret" /\ Bad(calls) # <<>> /\ Good(calls) # <<>>) =>
              /\ s.phases[2].n = Len(Good(calls))
              /\ s.phases[2].errors = ErrsOf("create", calls)
              /\ s.ret.set => ~s.ret.success
              /\ \A i \in 1..Len(Good(calls)) :
                     \E k \in 1..Len(remote) :
                         /\ remote[k].title = trim(Good(calls)[i].t)
                         /\ remote[k].startDateTime = s.phases[2].startDate

C6_Witness ==
    \E p \in Procs :
        LET calls == Calls(st[p], 2, "createTask")
        IN  /\ st[p].ret.set
            /\ Len(calls) = 2 /\ ~calls[1].ok /\ calls[2].ok
            /\ st[p].phases[2].n = 1
            /\ Len(st[p].phases[2].errors) = 1
            /\ Len(remote) = 1

\* index of the first task of the list whose normalized title is that of t,
\* 0 when there is none
FirstWithTitle(tasks, t) ==
    LET nt == NormTitle(t)
        hits == {j \in 1..Len(tasks) : NormTitle(tasks[j].title) = nt}
    IN  IF hits = {} THEN 0 ELSE CHOOSE j \in hits : \A k \in hits : j <= k

\* syncCompletions of invocation s returned and its two reads succeeded
CompletionsRan(s) == s.phases[3].st = "ret" /\ ~PhaseFailed(s, 3)

\* the remote tasks of the snapshot, in order, whose completion the first
\* loop of syncCompletions has to bring to the note
ObsidianUpdates(s) ==
    SelectSeq([i \in 1..Len(s.msftTasks) |-> i],
              LAMBDA i :
                  LET m == s.msftTasks[i]
                      j == FirstWithTitle(s.dailyNoteTasks, m.title)
                  IN  /\ m.status = "completed" /\ m.completedDateTime # NoTime
                      /\ j # 0 /\ ~s.dailyNoteTasks[j].completed)

\* C7 as stated: when syncCompletions has returned without any error, every
\* task of the note that was not completed and has the normalized title of a
\* remote task that is completed with a completion timestamp is checked,
\* also when an earlier line with that title was completed already.
C7_Original ==
    \A p \in Procs :
        LET s == st[p]
        IN  (CompletionsRan(s) /\ s.phases[3].errors = <<>>) =>
              \A i \in 1..Len(s.msftTasks) : \A j \in 1..Len(s.dailyNoteTasks) :
                  LET m == s.msftTasks[i]
                      o == s.dailyNoteTasks[j]
                  IN  (/\ m.status = "completed" /\ m.completedDateTime # NoTime
                       /\ NormTitle(o.title) = NormTitle(m.title) /\ ~o.completed)
                      => noteLines[o.line + 1].chk

\* C7 amended: for every remote task that is completed with a completion
\* timestamp, the FIRST task of the note (in line order) with equal
\* normalized title is the only candidate: when it is not completed,
\* updateTaskCompletion is called once for its line, and when that call
\* succeeds the line is checked, keeps its title and carries the date of a
\* remote completion; every other task line is left as it was.
C7_FirstMatchCompleted ==
    \A p \in Procs :
        LET s == st[p]
            calls == Calls(s, 3, "updateTaskCompletion")
            exp == ObsidianUpdates(s)
        IN  CompletionsRan(s) =>
              /\ Len(calls) = Len(exp)
              /\ \A n \in 1..Len(exp) :
                     LET m == s.msftTasks[exp[n]]
                     IN  /\ calls[n].t = m.title
                         /\ calls[n].n =
                              s.dailyNoteTasks[FirstWithTitle(s.dailyNoteTasks, m.title)].line
              /\ \A j \in 1..Len(s.dailyNoteTasks) :
                     LET o == s.dailyNoteTasks[j]
                         now == ParseLine(noteLines[o.line + 1], o.line + 1)
                         done == {n \in 1..Len(exp) : calls[n].ok /\ calls[n].n = o.line}
                     IN  IF done = {} THEN now = o
                         ELSE /\ now.completed /\ now.title = o.title
                              /\ \E n \in done :
                                   now.completionDate =
                                     CompletionDate(s.msftTasks[exp[n]].completedDateTime)

C7_Witness ==
    \E p \in Procs :
        LET s == st[p]
            calls == Calls(s, 3, "updateTaskCompletion")
        IN  /\ CompletionsRan(s) /\ s.pc = "done"
            /\ Len(calls) = 1 /\ calls[1].ok
            /\ \E j \in 1..Len(s.dailyNoteTasks) :
                   /\ s.dailyNoteTasks[j].line = calls[1].n
                   /\ ~s.dailyNoteTasks[j].completed
                   /\ noteLines[calls[1].n + 1].chk
            /\ \E j, k \in 1..Len(s.dailyNoteTasks) :
                   /\ j < k
                   /\ NormTitle(s.dailyNoteTasks[j].title) = NormTitle(s.dailyNoteTasks[k].title)

\* the tasks of the note snapshot, in order, whose completion the second
\* loop of syncCompletions has to bring to the remote list
MsftUpdates(s) ==
    SelectSeq([j \in 1..Len(s.dailyNoteTasks) |-> j],
              LAMBDA j :
                  LET o == s.dailyNoteTasks[j]
                      k == FirstWithTitle(s.msftTasks, o.title)
                  IN  /\ o.completed /\ o.completionDate # 0
                      /\ k # 0 /\ s.msftTasks[k].status # "completed")

\* C8 as stated: when syncCompletions has returned, for every completed task
\* of the note, with or without a completion date, and every remote task of
\* equal normalized title whose status is not completed, completeTask was
\* called with that remote task's id.
C8_Original ==
    \A p \in Procs :
        LET s == st[p]
        IN  CompletionsRan(s) =>
              \A j \in 1..Len(s.dailyNoteTasks) : \A k \in 1..Len(s.msftTasks) :
                  LET o == s.dailyNoteTasks[j]
                      m == s.msftTasks[k]
                  IN  (/\ o.completed
                       /\ NormTitle(m.title) = NormTitle(o.title)
                       /\ m.status # "completed")
                      => \E n \in 1..Len(s.log) :
                             s.log[n].op = "completeTask" /\ s.log[n].n = m.id

\* C8 amended: for every completed task of the note whose line carries a
\* completion date, if the FIRST remote task (in list order) with equal
\* normalized title has a status other than completed, completeTask is
\* called with that task's id, and when the call succeeds the remote task is
\* completed; completeTask is called for nothing else, in particular not for
\* a completed line without a completion date.
C8_DatedFirstMatchCompleted ==
    \A p \in Procs :
        LET s == st[p]
            calls == Calls(s, 3, "completeTask")
            exp == MsftUpdates(s)
        IN  CompletionsRan(s) =>
              /\ Len(calls) = Len(exp)
              /\ \A n \in 1..Len(exp) :
                     LET o == s.dailyNoteTasks[exp[n]]
                         id == s.msftTasks[FirstWithTitle(s.msftTasks, o.title)].id
                     IN  /\ calls[n].t = o.title
                         /\ calls[n].n = id
                         /\ calls[n].ok =>
                              \E k \in 1..Len(remote) :
                                  remote[k].id = id /\ remote[k].status = "completed"

C8_Witness ==
    \E p \in Procs :
        LET s == st[p]
            calls == Calls(s, 3, "completeTask")
        IN  /\ CompletionsRan(s) /\ s.pc = "done"
            /\ Len(calls) = 1 /\ calls[1].ok
            /\ \E k \in 1..Len(s.msftTasks) :
                   /\ s.msftTasks[k].id = calls[1].n
                   /\ s.msftTasks[k].status = "notStarted"
                   /\ remote[k].status = "completed"
            /\ \E j \in 1..Len(s.dailyNoteTasks) :
                   s.dailyNoteTasks[j].completed /\ s.dailyNoteTasks[j].completionDate = 0

\* C9: when syncMsftToObsidian is called twice back-to-back and neither call
\* met an error, the second call's newTasks is 0.
C9_SecondRunCreatesNothing ==
    LET s == st["manual"]
    IN  (/\ runs["manual"] = 2 /\ s.mode = "r2l" /\ s.pc = "done"
         /\ s.prev[1].errors = <<>> /\ s.phases[1].errors = <<>>)
        => s.phases[1].n = 0

\* the task lines of the note whose parsed title is t
LinesTitled(t) ==
    {i \in 1..Len(noteLines) :
        CheckboxMatch(noteLines[i]) /\ ParseLine(noteLines[i], i).title = t}

\* C10: nothing excludes a second performFullSync while one is in progress:
\* whatever the other invocation is doing, an idle trigger can start its own.
C10_NotExcluded ==
    \A p \in Procs : st[p].pc = "idle" => ENABLED Start(p, "full")

\* both invocations are in progress, each found the same remote task new and
\* appended a line for it, and the note holds two lines with that title
C10_Witness ==
    /\ \A p \in Procs : st[p].pc \notin {"idle", "done"}
    /\ \E t \in {remote[k].title : k \in 1..Len(remote)} :
           /\ \A p \in Procs :
                  /\ \E i \in 1..Len(st[p].phases[1].work) :
                         st[p].phases[1].work[i].title = t
                  /\ \E i \in 1..Len(st[p].log) :
                         /\ st[p].log[i].op = "addTask"
                         /\ st[p].log[i].t = t /\ st[p].log[i].ok
           /\ Cardinality(LinesTitled(t)) = 2

\* C11 as stated: when updateTaskCompletion rewrites line lineIndex for a
\* completed remote task, the line it found at that index holds a task whose
\* normalized title is that of the remote task, also when another invocation
\* appended lines after the snapshot was read.
C11_RewritesMatchingLine ==
    \A p \in Procs :
        LET s == st[p]
            m == s.msftTasks[s.i]
            ln == s.dailyNoteTasks[FirstWithTitle(s.dailyNoteTasks, m.title)].line
        IN  s.pc = "updModify" =>
              /\ s.lines[ln + 1].chk
              /\ NormTitle(trim(RemoveCompletion(TaskText(s.lines[ln + 1]))))
                     = NormTitle(m.title)

\* C12: in one performFullSync without a concurrent writer, while the first
\* loop of syncCompletions is at an updateTaskCompletion call the snapshot it
\* uses was parsed in syncCompletions (after every operation of phases 1 and
\* 2), the index it passes is a line of that snapshot, and every task of the
\* snapshot still stands on its line of the note with its title.
C12_SnapshotOfPhase3 ==
    \A p \in Procs :
        LET s == st[p]
            m == s.msftTasks[s.i]
            j == FirstWithTitle(s.dailyNoteTasks, m.title)
            parses == {i \in 1..Len(s.log) : s.log[i].op = "parse" /\ s.log[i].ph = 3}
        IN  (s.mode = "full" /\ s.pc \in {"updRead", "updModify"}) =>
              /\ \E i \in parses :
                     /\ s.log[i].ok
                     /\ \A k \in 1..(i-1) : s.log[k].ph < 3
                     /\ \A k \in (i+1)..Len(s.log) :
                            s.log[k].op \in {"getTasks", "read", "modify",
                                             "updateTaskCompletion"}
              /\ j # 0
              /\ \A k \in 1..Len(s.dailyNoteTasks) :
                     LET o == s.dailyNoteTasks[k]
                     IN  /\ o.line < Len(noteLines)
                         /\ CheckboxMatch(noteLines[o.line + 1])
                         /\ trim(RemoveCompletion(TaskText(noteLines[o.line + 1])))
                                = o.title
              /\ Len(s.dailyNoteTasks) =
                     Cardinality({i \in 1..Len(noteLines) : CheckboxMatch(noteLines[i])})

C12_Witness ==
    \E p \in Procs :
        LET s == st[p]
        IN  /\ s.mode = "full" /\ s.pc = "updModify"
            /\ Good(Calls(s, 1, "addTask")) # <<>>
            /\ s.dailyNoteTasks[FirstWithTitle(s.dailyNoteTasks,
                                               s.msftTasks[s.i].title)].line >= 2

\* the lines of the note that hold an incomplete task
IncompleteLines == {i \in 1..Len(noteLines) :
                       CheckboxMatch(noteLines[i]) /\ ~noteLines[i].chk}

\* the title parseDailyNoteTodos gives the task of line i
TitleOfLine(i) == trim(RemoveCompletion(TaskText(noteLines[i])))

\* C13: when the note was read and holds no incomplete task,
\* syncObsidianToMsft returns newTasks = 0 and no error and has called
\* nothing but the read of the note: no remote list fetch, no modification
\* date read, no create, whether or not the remote store would answer.
C13_EmptyShortCircuit ==
    \A p \in Procs :
        LET s == st[p]
        IN  (/\ s.mode = "l2r" /\ s.pc = "done"
             /\ Good(Calls(s, 2, "parse")) # <<>>
             /\ IncompleteLines = {})
            => /\ s.phases[2].n = 0
               /\ s.phases[2].errors = <<>>
               /\ Len(s.log) = 1
               /\ \A i \in 1..Len(s.log) :
                      s.log[i].op \notin {"getTasks", "mtime", "post", "createTask"}

C13_Witness ==
    \E p \in Procs :
        /\ st[p].mode = "l2r" /\ st[p].pc = "done"
        /\ Good(Calls(st[p], 2, "parse")) # <<>>
        /\ IncompleteLines = {}
        /\ \E i \in 1..Len(noteLines) : CheckboxMatch(noteLines[i])
        /\ \E k \in 1..Len(remote) : remote[k].status = "notStarted"

\* C14: every title syncObsidianToMsft passes to createTask is the title of
\* a task of the note that is not completed and whose normalized title is
\* the normalized title of no task of the fetched remote list.
C14_OnlyIncompleteCreated ==
    \A p \in Procs :
        LET s == st[p]
        IN  s.mode = "l2r" =>
              \A n \in 1..Len(s.log) :
                  s.log[n].op \in {"createTask", "post"} =>
                      /\ \E i \in IncompleteLines : TitleOfLine(i) = s.log[n].t
                      /\ \A k \in 1..Len(s.msftTasks) :
                             NormTitle(s.msftTasks[k].title) # NormTitle(s.log[n].t)

C14_Witness ==
    \E p \in Procs :
        /\ st[p].mode = "l2r" /\ st[p].pc = "done"
        /\ Len(Good(Calls(st[p], 2, "createTask"))) = 1
        /\ \E i \in 1..Len(noteLines) :
               /\ CheckboxMatch(noteLines[i]) /\ noteLines[i].chk
               /\ \A k \in 1..Len(remote) :
                      NormTitle(remote[k].title) # NormTitle(TitleOfLine(i))
        /\ st[p].msftTasks # <<>>

\* C18: when syncObsidianToMsft has returned without an error, every
\* incomplete task of the note has a remote task with equal normalized
\* title, and every remote task the call created carries the note's
\* modification date as its start date.
C18_LocalTasksInRemote ==
    \A p \in Procs :
        LET s == st[p]
            c == Len(Good(Calls(s, 2, "createTask")))
        IN  (s.mode = "l2r" /\ s.pc = "done" /\ s.phases[2].errors = <<>>) =>
              /\ \A i \in IncompleteLines :
                     \E k \in 1..Len(remote) :
                         NormTitle(remote[k].title) = NormTitle(TitleOfLine(i))
              /\ c <= Len(remote)
              /\ \A k \in (Len(remote) - c + 1)..Len(remote) :
                     remote[k].startDateTime = mtime

C18_Witness ==
    \E p \in Procs :
        /\ st[p].mode = "l2r" /\ st[p].pc = "done"
        /\ st[p].phases[2].errors = <<>>
        /\ Len(Good(Calls(st[p], 2, "createTask"))) = 2
        /\ Len(remote) = 3

\* C15: a remote task and a local task with equal normalized titles are in
\* neither result of the matcher: wherever the engine holds the result of
\* filterNewTasks (phase 1) or of filterNewObsidianTasks (phase 2), a task
\* is in the result exactly when no task of the other collection has its
\* normalized title.
C15_MatchedPairInNeither ==
    \A p \in Procs :
        LET s == st[p]
            SameTitle(x, y) == NormTitle(x.title) = NormTitle(y.title)
        IN  /\ s.pc \in {"addRead", "addModify", "focsRead", "focsModify"} =>
                 \A i \in 1..Len(s.msftTasks) :
                     (s.msftTasks[i] \in Range(s.work))
                     <=> ~\E j \in 1..Len(s.dailyNoteTasks) :
                              SameTitle(s.msftTasks[i], s.dailyNoteTasks[j])
            /\ s.pc \in {"modDate2", "createTask"} =>
                 \A j \in 1..Len(s.dailyNoteTasks) :
                     (s.dailyNoteTasks[j] \in Range(s.work))
                     <=> ~\E i \in 1..Len(s.msftTasks) :
                              SameTitle(s.msftTasks[i], s.dailyNoteTasks[j])

C15_Witness ==
    \E p \in Procs :
        LET s == st[p]
        IN  /\ s.pc \in {"addRead", "createTask"}
            /\ \E i \in 1..Len(s.msftTasks) : \E j \in 1..Len(s.dailyNoteTasks) :
                   /\ s.msftTasks[i].title # s.dailyNoteTasks[j].title
                   /\ NormTitle(s.msftTasks[i].title) = NormTitle(s.dailyNoteTasks[j].title)
                   /\ s.msftTasks[i] \notin Range(s.work)
                   /\ s.dailyNoteTasks[j] \notin Range(s.work)

\* C16: syncObsidianToMsft asks for at most one creation per normalized
\* title: two tasks of the note with the same normalized title never both
\* reach createTask in one run.
C16_OnePerTitle ==
    \A p \in Procs :
        LET calls == Calls(st[p], 2, "createTask")
        IN  st[p].mode = "l2r" =>
              \A i, j \in 1..Len(calls) :
                  NormTitle(calls[i].t) = NormTitle(calls[j].t) => i = j

\* C17: when syncMsftToObsidian has returned without an error, every task
\* of the fetched remote list has a task line in the note whose parsed title
\* has the same normalized form.
C17_RemoteTasksInNote ==
    LET s == st["manual"]
    IN  (s.mode = "r2l" /\ s.pc = "done" /\ runs["manual"] = 1
         /\ s.phases[1].errors = <<>>)
        => \A k \in 1..Len(s.msftTasks) :
               \E i \in 1..Len(noteLines) :
                   /\ CheckboxMatch(noteLines[i])
                   /\ NormTitle(TitleOfLine(i)) = NormTitle(s.msftTasks[k].title)

\* C19: in one syncObsidianToMsft run the modification date is read at most
\* once, after the fetch of the remote list and before the first create, and
\* every task the run creates carries the date that read returned, whatever
\* another writer did to the note in the meantime.
C19_OneStartDate ==
    LET s == st["manual"]
        reads == {i \in 1..Len(s.log) : s.log[i].op = "mtime"}
        c == Len(Good(Calls(s, 2, "createTask")))
    IN  s.mode = "l2r" =>
          /\ Cardinality(reads) <= 1
          /\ \A i \in reads :
                 /\ \E k \in 1..(i-1) : s.log[k].op = "getTasks" /\ s.log[k].ok
                 /\ \A k \in 1..(i-1) : s.log[k].op \notin {"post", "createTask"}
          /\ \A k \in 1..Len(s.log) :
                 s.log[k].op \in {"post", "createTask"} =>
                     \E i \in reads : i < k /\ s.log[i].ok
          /\ c <= Len(remote)
          /\ \A k \in (Len(remote) - c + 1)..Len(remote) :
                 \A i \in reads : remote[k].startDateTime = s.log[i].n

C19_Witness ==
    LET s == st["manual"]
    IN  /\ s.mode = "l2r" /\ s.pc = "done"
        /\ Len(Good(Calls(s, 2, "createTask"))) = 2
        /\ remote[Len(remote)].startDateTime = 1
        /\ remote[Len(remote) - 1].startDateTime = 1
        /\ mtime = MaxDay
        /\ Good(Calls(st["timer"], 1, "addTask")) # <<>>

\* the operations on the note: at phase level, and inside a per-item call
NotePhaseOps == {"create", "parse", "mtime"}

NoteItemOps == {"read", "modify"}

\* C20 as stated: a phase in which an operation on the note failed is
\* aborted at that failure and reports exactly one error, the aggregate
\* error of the phase.
C20_Original ==
    \A p \in Procs :
        LET s == st[p]
        IN  \A k \in 1..3 :
                s.phases[k].st = "ret" =>
                    \A i \in 1..Len(s.log) :
                        (/\ s.log[i].ph = k /\ ~s.log[i].ok
                         /\ s.log[i].op \in NotePhaseOps \cup NoteItemOps)
                        => /\ s.phases[k].errors = <<Err(PhaseErrKind(k), <<>>)>>
                           /\ \A j \in (i+1)..Len(s.log) :
                                  s.log[j].ph # k \/ s.log[j].op \in ItemCalls

\* C20 amended: when the note cannot be created or read at phase level (the
\* creation of today's note, the parse of the note, its modification date)
\* the phase is aborted at once with exactly one aggregate error; when the
\* read or the write of the note fails inside addTaskToTodoSection or
\* updateTaskCompletion, the phase is not aborted: it reports one error for
\* each failed item, naming its title, and goes on with the remaining items.
C20_NoteFailure ==
    \A p \in Procs :
        LET s == st[p]
            adds == Calls(s, 1, "addTask")
            upds == Calls(s, 3, "updateTaskCompletion")
            cmps == Calls(s, 3, "completeTask")
        IN  /\ \A k \in 1..3 : s.phases[k].st = "ret" =>
                   \A i \in 1..Len(s.log) :
                       (s.log[i].ph = k /\ ~s.log[i].ok /\ s.log[i].op \in NotePhaseOps)
                       => /\ s.phases[k].errors = <<Err(PhaseErrKind(k), <<>>)>>
                          /\ s.phases[k].n = 0
                          /\ \A j \in (i+1)..Len(s.log) : s.log[j].ph # k
            /\ (s.phases[1].st = "ret" /\ ~PhaseFailed(s, 1)) =>
                   /\ Len(adds) = Len(s.phases[1].work)
                   /\ Len(s.phases[1].errors) = Len(Bad(adds))
                   /\ \A n \in 1..Len(Bad(adds)) :
                          s.phases[1].errors[n] = Err("add", Bad(adds)[n].t)
            /\ CompletionsRan(s) =>
                   /\ Len(upds) = Len(ObsidianUpdates(s))
                   /\ s.phases[3].errors =
                          [n \in 1..Len(Bad(upds)) |-> Err("completeObs", Bad(upds)[n].t)]
                          \o [n \in 1..Len(Bad(cmps)) |-> Err("completeMsft", Bad(cmps)[n].t)]

C20_Witness ==
    \E p \in Procs :
        LET s == st[p]
        IN  /\ s.pc = "done" /\ s.mode = "full"
            /\ Len(Bad(Calls(s, 1, "addTask"))) = 2
            /\ Len(s.phases[1].errors) = 2
            /\ \E i \in 1..Len(s.log) :
                   s.log[i].ph = 1 /\ s.log[i].op = "modify" /\ ~s.log[i].ok
            /\ \E i \in 1..Len(s.log) :
                   s.log[i].ph = 1 /\ s.log[i].op = "read" /\ ~s.log[i].ok

\* C21: when a task has vanished between the fetch and its mutation
\* (completeTask answers "not found" for an id deleted elsewhere;
\* updateTaskCompletion finds its line index out of range or on a line that
\* is no checkbox), syncCompletions records one error string with that
\* task's title, writes nothing for it, and still makes every other call of
\* both loops; its count is the number of calls that succeeded.
C21_VanishedSkipped ==
    LET s == st["manual"]
        upds == Calls(s, 3, "updateTaskCompletion")
        cmps == Calls(s, 3, "completeTask")
    IN  (s.mode = "comp" /\ s.pc = "done" /\ ~PhaseFailed(s, 3)) =>
          /\ Len(upds) = Len(ObsidianUpdates(s))
          /\ Len(cmps) = Len(MsftUpdates(s))
          /\ \A n \in 1..Len(upds) :
                 upds[n].t = s.msftTasks[ObsidianUpdates(s)[n]].title
          /\ \A n \in 1..Len(cmps) :
                 cmps[n].t = s.dailyNoteTasks[MsftUpdates(s)[n]].title
          /\ s.phases[3].errors =
                 ErrsOf("completeObs", upds) \o ErrsOf("completeMsft", cmps)
          /\ s.phases[3].n = Len(Good(upds)) + Len(Good(cmps))
          /\ Len(Calls(s, 3, "modify")) = Len(Good(upds))
          /\ \A n \in 1..Len(cmps) :
                 ~cmps[n].ok => \A k \in 1..Len(remote) : remote[k].id # cmps[n].n

\* an updateTaskCompletion failed on a stale line index, and the completeTask
\* of the second loop was still made and succeeded
C21_Witness ==
    LET s == st["manual"]
        upds == Calls(s, 3, "updateTaskCompletion")
        cmps == Calls(s, 3, "completeTask")
    IN  /\ s.mode = "comp" /\ s.pc = "done"
        /\ Len(upds) = 1 /\ ~upds[1].ok
        /\ Len(cmps) = 1 /\ cmps[1].ok
        /\ s.phases[3].errors = <<Err("completeObs", upds[1].t)>>
        /\ s.phases[3].n = 1

\* C22: a task of the note whose title is empty after trim, when it reaches
\* createTask, is rejected without a request to the remote store: the
\* remote list holds the fetched tasks and the tasks created by the other
\* calls, nothing else; syncObsidianToMsft records one error for it and
\* goes on, so that every task of newObsidianTasks gets its call.
C22_BlankTitleRejected ==
    LET s == st["manual"]
        calls == Calls(s, 2, "createTask")
        posts == Calls(s, 2, "post")
        blank == SelectSeq(calls, LAMBDA e : trim(e.t) = <<>>)
    IN  s.mode = "l2r" =>
          /\ \A n \in 1..Len(blank) : ~blank[n].ok
          /\ \A n \in 1..Len(posts) : trim(posts[n].t) # <<>>
          /\ Len(posts) = Len(calls) - Len(blank)
          /\ \A k \in 1..Len(remote) : remote[k].title # <<>>
          /\ Good(Calls(s, 2, "getTasks")) # <<>> =>
                 Len(remote) = Len(s.msftTasks) + Len(Good(calls))
          /\ (s.pc = "done" /\ ~PhaseFailed(s, 2)) =>
                 /\ [n \in 1..Len(calls) |-> calls[n].t]
                        = [n \in 1..Len(s.work) |-> s.work[n].title]
                 /\ s.phases[2].errors = ErrsOf("create", calls)
                 /\ s.phases[2].n = Len(Good(calls))

\* a task without a title was rejected first, and the task after it was
\* created
C22_Witness ==
    LET s == st["manual"]
        calls == Calls(s, 2, "createTask")
    IN  /\ s.mode = "l2r" /\ s.pc = "done"
        /\ Len(calls) = 3
        /\ calls[1].t = <<>> /\ ~calls[1].ok
        /\ calls[2].ok /\ calls[3].t = <<>>
        /\ s.phases[2].errors = <<Err("create", <<>>), Err("create", <<>>)>>
        /\ Len(remote) = Len(s.msftTasks) + 1

\* the suspension points inside addTaskToTodoSection
AddPcs == {"addRead", "addModify", "focsRead", "focsModify"}

\* how many elements of the index list sel the loop has reached (its
\* position is s.i)
Reached(s, sel) == Cardinality({n \in 1..Len(sel) : sel[n] <= s.i})

\* C23: within one performFullSync the per-item calls are made one at a
\* time: while the call for an item is outstanding the calls of all earlier
\* items of the loop have settled and no later item's call was started, the
\* second loop of syncCompletions starts when every call of the first has
\* settled, inside a call the write follows the settled read, and when
\* performFullSync returns no call is outstanding.
C23_OneOutstanding ==
    \A p \in Procs :
        LET s == st[p]
            adds == Calls(s, 1, "addTask")
            creates == Calls(s, 2, "createTask")
            upds == Calls(s, 3, "updateTaskCompletion")
            cmps == Calls(s, 3, "completeTask")
            last == s.log[Len(s.log)]
        IN  s.mode = "full" =>
              /\ s.pc \in AddPcs => s.i = Len(adds) + 1
              /\ s.pc = "createTask" => s.i = Len(creates) + 1
              /\ s.pc \in {"updRead", "updModify"} =>
                     /\ Reached(s, ObsidianUpdates(s)) = Len(upds) + 1
                     /\ cmps = <<>>
              /\ s.pc = "completeTask" =>
                     /\ Len(upds) = Len(ObsidianUpdates(s))
                     /\ Reached(s, MsftUpdates(s)) = Len(cmps) + 1
              /\ s.pc \in {"addModify", "focsModify", "updModify"} =>
                     last.op = "read" /\ last.ok
              /\ s.pc = "done" =>
                     /\ ~PhaseFailed(s, 1) => Len(adds) = Len(s.phases[1].work)
                     /\ ~PhaseFailed(s, 2) => Len(creates) = Len(s.phases[2].work)
                     /\ ~PhaseFailed(s, 3) =>
                            /\ Len(upds) = Len(ObsidianUpdates(s))
                            /\ Len(cmps) = Len(MsftUpdates(s))

\* the append of the second new task is outstanding, the first one's failed
C23_Witness ==
    \E p \in Procs :
        LET s == st[p]
            adds == Calls(s, 1, "addTask")
        IN  /\ s.mode = "full" /\ s.pc = "addModify"
            /\ Len(s.work) = 2 /\ s.i = 2
            /\ Len(adds) = 1 /\ ~adds[1].ok

\* the store operations made inside a per-item call
ItemOps == {"read", "modify", "post", "patch"}

\* the titles of the log entries calls
TitlesOf(calls) == [n \in 1..Len(calls) |-> calls[n].t]

\* sequence x is an initial part of sequence y
IsPrefix(x, y) == Len(x) <= Len(y) /\ x = SubSeq(y, 1, Len(x))

\* C24: within one performFullSync nothing is tried twice: each phase makes
\* each of its phase-level operations (list fetch, note creation, parse,
\* modification date) at most once and returns at the first that fails;
\* the per-item calls of a loop are one per element of the diff, in order,
\* whether they failed or not; and inside a per-item call a failed store
\* operation is followed by no other operation of that call.
C24_NoRetry ==
    \A p \in Procs :
        LET s == st[p]
            Work(k) == IF s.phases[k].st = "ret" THEN s.phases[k].work ELSE s.work
            ou == ObsidianUpdates(s)
            mu == MsftUpdates(s)
        IN  s.mode = "full" =>
              /\ \A i \in 1..Len(s.log) :
                     s.log[i].op \in PhaseLevelOps =>
                       \A j \in (i + 1)..Len(s.log) :
                           ~(s.log[j].op = s.log[i].op /\ s.log[j].ph = s.log[i].ph)
              /\ \A i \in 1..(Len(s.log) - 1) :
                     ~s.log[i].ok =>
                       IF s.log[i].op \in PhaseLevelOps
                       THEN s.log[i+1].ph > s.log[i].ph
                       ELSE IF s.log[i].op \in ItemOps
                       THEN /\ s.log[i+1].op \in ItemCalls
                            /\ s.log[i+1].t = s.log[i].t /\ ~s.log[i+1].ok
                       ELSE s.log[i+1].op \notin ItemCalls
              /\ IsPrefix(TitlesOf(Calls(s, 1, "addTask")),
                          [n \in 1..Len(Work(1)) |-> Work(1)[n].title])
              /\ IsPrefix(TitlesOf(Calls(s, 2, "createTask")),
                          [n \in 1..Len(Work(2)) |-> Work(2)[n].title])
              /\ s.phases[3].st # "no" =>
                     /\ IsPrefix(TitlesOf(Calls(s, 3, "updateTaskCompletion")),
                                 [n \in 1..Len(ou) |-> s.msftTasks[ou[n]].title])
                     /\ IsPrefix(TitlesOf(Calls(s, 3, "completeTask")),
                                 [n \in 1..Len(mu) |-> s.dailyNoteTasks[mu[n]].title])

\* the write of the first append failed, the second append succeeded, and
\* the list fetch of syncCompletions failed
C24_Witness ==
    \E p \in Procs :
        LET s == st[p]
            adds == Calls(s, 1, "addTask")
        IN  /\ s.mode = "full" /\ s.pc = "done"
            /\ Len(adds) = 2 /\ ~adds[1].ok /\ adds[2].ok
            /\ \E i \in 1..Len(s.log) : s.log[i].op = "modify" /\ ~s.log[i].ok
            /\ Bad(Calls(s, 3, "getTasks")) # <<>>

\* the lines of the note, in line order, that read `- [ ] t` for a title t
\* of the set ts
LinesReading(ts) ==
    SelectSeq([i \in 1..Len(noteLines) |-> i],
              LAMBDA i : \E t \in ts : noteLines[i] = TaskLine(t))

\* C25: the items of a phase are mutated in the order of the fetch.  The
\* appends of syncMsftToObsidian are made in remote list order, and as long
\* as syncCompletions has not rewritten lines the appended lines stand in
\* the todo section of the note in that order; the creates of
\* syncObsidianToMsft are made in the order of the note's lines and the
\* created tasks end the remote list in that order; the error strings of a
\* phase are in the order of its calls.
C25_FetchOrder ==
    \A p \in Procs :
        LET s == st[p]
            adds == Calls(s, 1, "addTask")
            creates == Calls(s, 2, "createTask")
            upds == Calls(s, 3, "updateTaskCompletion")
            cmps == Calls(s, 3, "completeTask")
            new == LinesReading({Good(adds)[n].t : n \in 1..Len(Good(adds))})
            w1 == IF s.phases[1].st = "ret" THEN s.phases[1].work ELSE s.work
            w2 == IF s.phases[2].st = "ret" THEN s.phases[2].work ELSE s.work
            h == TodoSectionIndex(noteLines)
            c == Len(Good(creates))
        IN  s.mode = "full" =>
              /\ \A i, j \in 1..Len(w1) :
                     i < j => \E x, y \in 1..Len(remote) :
                                 x < y /\ remote[x].id = w1[i].id /\ remote[y].id = w1[j].id
              /\ IsPrefix(TitlesOf(adds), [n \in 1..Len(w1) |-> w1[n].title])
              /\ s.phases[3].st = "no" =>
                     /\ [n \in 1..Len(new) |-> noteLines[new[n]]]
                            = [n \in 1..Len(Good(adds)) |-> TaskLine(Good(adds)[n].t)]
                     /\ \A n \in 1..Len(new) :
                            /\ h # 0 /\ h < new[n]
                            /\ \A i \in h..new[n] : noteLines[i].k # "head"
              /\ s.phases[2].st # "no" =>
                     /\ \A i, j \in 1..Len(w2) : i < j => w2[i].line < w2[j].line
                     /\ IsPrefix(TitlesOf(creates), [n \in 1..Len(w2) |-> w2[n].title])
                     /\ c <= Len(remote)
                     /\ [n \in 1..c |-> remote[Len(remote) - c + n].title]
                            = [n \in 1..c |-> trim(Good(creates)[n].t)]
              /\ (s.phases[1].st = "ret" /\ ~PhaseFailed(s, 1)) =>
                     s.phases[1].errors = ErrsOf("add", adds)
              /\ (s.phases[2].st = "ret" /\ ~PhaseFailed(s, 2)) =>
                     s.phases[2].errors = ErrsOf("create", creates)
              /\ CompletionsRan(s) =>
                     s.phases[3].errors = ErrsOf("completeObs", upds)
                                          \o ErrsOf("completeMsft", cmps)

\* two remote tasks with different titles were appended, and their lines
\* stand in the note in the order of the remote list
C25_Witness ==
    \E p \in Procs :
        LET s == st[p]
            adds == Good(Calls(s, 1, "addTask"))
        IN  /\ s.mode = "full" /\ s.pc = "parse2"
            /\ Len(adds) = 2 /\ adds[1].t # adds[2].t
            /\ adds[1].t = remote[1].title /\ adds[2].t = remote[2].title
            /\ \E i, j \in 1..Len(noteLines) :
                   /\ i < j
                   /\ noteLines[i] = TaskLine(adds[1].t)
                   /\ noteLines[j] = TaskLine(adds[2].t)

\* C26: the completion date syncCompletions writes to the line is the date
\* portion of the remote task's completion timestamp as it is written, time
\* of day and zone discarded.
C26_DatePortion ==
    LET s == st["manual"]
        m == s.msftTasks[s.i]
        ln == s.dailyNoteTasks[FirstWithTitle(s.dailyNoteTasks, m.title)].line
    IN  (s.mode = "comp" /\ s.pc = "updModify") =>
          CompletionOf(TaskText(s.lines[ln + 1])) = m.completedDateTime.d

\* the note holds no task line
NoTaskLines(lines) == \A i \in 1..Len(lines) : ~CheckboxMatch(lines[i])

\* C27: performFullSync on an empty remote list and a note without task
\* lines (or no note yet) changes neither: no step of the invocation adds a
\* remote task or a task line; and the SyncResult it returns then has three
\* counts of 0 and, when no store call was rejected, success = true and no
\* error.
C27_EmptySync ==
    /\ [][(remote = <<>> /\ NoTaskLines(noteLines))
             => (remote' = <<>> /\ NoTaskLines(noteLines'))]_vars
    /\ [](LET s == st["manual"]
          IN  (s.ret.set /\ remote = <<>> /\ NoTaskLines(noteLines)) =>
                /\ s.ret.newTasksFromMsft = 0
                /\ s.ret.newTasksFromObsidian = 0
                /\ s.ret.completedTasks = 0
                /\ (\A i \in 1..Len(s.log) : s.log[i].ok) =>
                       s.ret = [set |-> TRUE, success |-> TRUE,
                                newTasksFromMsft |-> 0, newTasksFromObsidian |-> 0,
                                completedTasks |-> 0, errors |-> <<>>])

\* the sync returned success after it created the missing note
C27_Witness ==
    LET s == st["manual"]
    IN  /\ s.ret.set /\ s.ret.success /\ s.ret.errors = <<>>
        /\ remote = <<>> /\ NoTaskLines(noteLines)
        /\ Good(Calls(s, 1, "create")) # <<>>
        /\ Good(Calls(s, 2, "parse")) # <<>>
        /\ Good(Calls(s, 3, "getTasks")) # <<>>
        /\ noteLines = NoteTemplate

\* C28: the count syncCompletions returns is the number of completions
\* applied: no line is marked completed twice and completeTask is called at
\* most once for a remote id, so that the count is the number of lines that
\* became checked plus the number of remote tasks that became completed.
C28_CountIsApplied ==
    LET s == st["manual"]
        upds == Good(Calls(s, 3, "updateTaskCompletion"))
        cmps == Good(Calls(s, 3, "completeTask"))
        marked == {k \in 1..Len(s.dailyNoteTasks) :
                      /\ ~s.dailyNoteTasks[k].completed
                      /\ noteLines[s.dailyNoteTasks[k].line + 1].chk}
        completed == {k \in 1..Len(s.msftTasks) :
                         /\ s.msftTasks[k].status # "completed"
                         /\ remote[k].status = "completed"}
    IN  (s.mode = "comp" /\ s.pc = "done" /\ ~PhaseFailed(s, 3)) =>
          /\ \A i, j \in 1..Len(upds) : upds[i].n = upds[j].n => i = j
          /\ \A i, j \in 1..Len(cmps) : cmps[i].n = cmps[j].n => i = j
          /\ s.phases[3].n = Cardinality(marked) + Cardinality(completed)

\* C29: when performFullSync returned success = true and is called again at
\* once, nothing else having touched the stores, the second call reports
\* three counts of 0 and writes to neither store.
C29_FixpointInOnePass ==
    LET s == st["manual"]
    IN  (/\ runs["manual"] = 2 /\ s.mode = "full" /\ s.pc = "done"
         /\ \A k \in 1..3 : s.prev[k].errors = <<>>)
        => /\ s.ret.newTasksFromMsft = 0
           /\ s.ret.newTasksFromObsidian = 0
           /\ s.ret.completedTasks = 0
           /\ \A i \in 1..Len(s.log) :
                  s.log[i].op \notin {"create", "modify", "post", "patch"}

\* C30: within one performFullSync, no title passed to createTask in phase 2
\* is the title of a line that phase 1 appended for a remote task: every
\* created title belongs to a line the note held before the invocation.
C30_ImportedNotCreated ==
    LET s == st["manual"]
        adds == Good(Calls(s, 1, "addTask"))
        creates == Calls(s, 2, "createTask")
    IN  s.mode = "full" =>
          \A i \in 1..Len(adds) : \A j \in 1..Len(creates) :
              creates[j].t # ParseLine(TaskLine(adds[i].t), 1).title

\* the four mutations the engine is said to issue, as steps of the stores
\* append-line: one unchecked task line is inserted, the others keep their order
AppendLineStep ==
    /\ noteExists' = noteExists
    /\ Len(noteLines') = Len(noteLines) + 1
    /\ \E i \in 1..Len(noteLines') :
           /\ noteLines'[i].k = "task" /\ ~noteLines'[i].chk
           /\ noteLines = SubSeq(noteLines', 1, i - 1)
                          \o SubSeq(noteLines', i + 1, Len(noteLines'))

\* mark-line-completed: one task line is rewritten to a checked task line
MarkLineStep ==
    /\ noteExists' = noteExists
    /\ Len(noteLines') = Len(noteLines)
    /\ \E i \in 1..Len(noteLines) :
           /\ noteLines[i].k = "task" /\ noteLines'[i].k = "task"
           /\ noteLines'[i].chk
           /\ \A j \in 1..Len(noteLines) : j # i => noteLines'[j] = noteLines[j]

\* create-remote-task: one task that is not completed is added at the end
CreateRemoteStep ==
    /\ Len(remote') = Len(remote) + 1
    /\ SubSeq(remote', 1, Len(remote)) = remote
    /\ remote'[Len(remote')].status = "notStarted"

\* complete-remote-task: one task that was not completed becomes completed
CompleteRemoteStep ==
    /\ Len(remote') = Len(remote)
    /\ \E k \in 1..Len(remote) :
           /\ remote[k].status # "completed" /\ remote'[k].status = "completed"
           /\ remote'[k].id = remote[k].id /\ remote'[k].title = remote[k].title
           /\ \A j \in 1..Len(remote) : j # k => remote'[j] = remote[j]

\* the note is created from its template
CreateNoteStep ==
    ~noteExists /\ noteExists' /\ noteLines = <<>> /\ noteLines' = NoteTemplate

\* the todo section is added at the end of the note
CreateSectionStep ==
    /\ noteExists' = noteExists
    /\ noteLines' = noteLines \o <<Blank, Header, Blank>>

NoteUntouched == noteExists' = noteExists /\ noteLines' = noteLines

\* C31 as stated: every step of the engine leaves each store as it is or
\* applies one of append-line, mark-line-completed (note) and
\* create-remote-task, complete-remote-task (remote list).  Violated: the
\* engine also creates the note and the todo section.
C31_Original ==
    [][/\ NoteUntouched \/ AppendLineStep \/ MarkLineStep
       /\ remote' = remote \/ CreateRemoteStep \/ CompleteRemoteStep]_vars

\* C31 (amended): across performFullSync calls made one after the other,
\* every step of the engine leaves each store as it is or applies one of:
\* create the note from its template, add the todo section at the end of the
\* note, insert one unchecked task line, rewrite one task line to a checked
\* task line, add one remote task that is not completed, complete one remote
\* task that was not completed.  So no line and no remote task is ever
\* removed and no checked line or completed task is ever turned back.
C31_Monotone ==
    [][/\ \/ NoteUntouched \/ AppendLineStep \/ MarkLineStep
          \/ CreateNoteStep \/ CreateSectionStep
       /\ remote' = remote \/ CreateRemoteStep \/ CompleteRemoteStep]_vars

\* one invocation has created the note, appended a line to it and marked a
\* line completed
C31_Witness ==
    LET s == st["manual"]
    IN  /\ s.pc = "done" /\ s.mode = "full"
        /\ Good(Calls(s, 1, "create")) # <<>>
        /\ Good(Calls(s, 1, "addTask")) # <<>>
        /\ Good(Calls(s, 3, "updateTaskCompletion")) # <<>>
        /\ \E i \in 1..Len(noteLines) : noteLines[i].k = "task" /\ noteLines[i].chk

\* C32: a creation phase (syncMsftToObsidian, syncObsidianToMsft) that has
\* returned without a phase-level failure accounts for every item of its
\* diff exactly once: there is one settled per-item call for each item, and
\* created plus the number of error strings is the size of the diff; a
\* phase that met a phase-level failure returns created = 0 and exactly one
\* error string.
C32_ItemsAccounted ==
    \A p \in Procs :
        LET s == st[p]
        IN  \A k \in 1..2 :
                s.phases[k].st = "ret" =>
                  LET ph == s.phases[k]
                      calls == Calls(s, k, IF k = 1 THEN "addTask" ELSE "createTask")
                  IN  IF PhaseFailed(s, k)
                      THEN ph.n = 0 /\ Len(ph.errors) = 1
                      ELSE /\ ph.n + Len(ph.errors) = Len(ph.work)
                           /\ Len(calls) = Len(ph.work)
                           /\ ph.n = Len(Good(calls))
                           /\ Len(ph.errors) = Len(Bad(calls))

\* syncObsidianToMsft returned created = 1 and one error for a diff of two
\* tasks
C32_Witness ==
    LET s == st["manual"]
    IN  /\ s.phases[2].st = "ret" /\ ~PhaseFailed(s, 2)
        /\ Len(s.phases[2].work) = 2
        /\ s.phases[2].n = 1 /\ Len(s.phases[2].errors) = 1

\* the log entries of operation op that belong to the same per-item call of
\* phase 1 as entry i and are not later than it (a call ends with its
\* "addTask" entry)
SameCall(log, i, op) ==
    {j \in 1..i : /\ log[j].ph = 1 /\ log[j].op = op
                  /\ \A m \in j..(i - 1) : log[m].op # "addTask"}

\* C34: one call of addTaskToTodoSection writes the note at most twice (the
\* section, then the task line) and reads it at most three times (its own
\* read, the read of findOrCreateTodoSection, the read of the one re-entry),
\* whatever the configured section header and the note are.
C34_TwoWritesOneReentry ==
    \A p \in Procs :
        LET log == st[p].log
        IN  \A i \in 1..Len(log) :
                log[i].ph = 1 =>
                    /\ Cardinality(SameCall(log, i, "modify")) <= 2
                    /\ Cardinality(SameCall(log, i, "read")) <= 3

\* the step settles a call of addTaskToTodoSection of process p with success
AppendSettles(p) ==
    /\ st[p].pc = "addModify"
    /\ Len(st'[p].log) = Len(st[p].log) + 2
    /\ st'[p].log[Len(st'[p].log)].op = "addTask"
    /\ st'[p].log[Len(st'[p].log)].ok

\* new is old with the line l put in at position i
InsertedAt(old, new, i, l) ==
    /\ Len(new) = Len(old) + 1 /\ i \in 1..Len(new)
    /\ new[i] = l
    /\ old = SubSeq(new, 1, i - 1) \o SubSeq(new, i + 1, Len(new))

\* C33: the write of a successful addTaskToTodoSection(path, title) puts
\* exactly one line '- [ ] title' into the note, below the first section
\* header and above the next heading after it, and keeps every other line as
\* it is and in its order; the only other write such a call may make, before
\* that one and only when the note has no section header, adds a blank line,
\* the header and a blank line at the end of the note; the reads of the call
\* change nothing.
C33_AppendFrame ==
    [][\A p \in Procs :
          /\ AppendSettles(p) =>
                \E i \in 1..Len(noteLines') :
                    /\ InsertedAt(noteLines, noteLines', i,
                                  Line("task", FALSE,
                                       <<SP>> \o st[p].work[st[p].i].title))
                    /\ \E h \in 1..(i - 1) :
                           /\ noteLines[h].k = "hdr"
                           /\ \A j \in 1..(h - 1) : noteLines[j].k # "hdr"
                           /\ \A j \in (h + 1)..(i - 1) : noteLines[j].k # "head"
          /\ (st[p].pc = "focsModify" /\ noteLines' # noteLines) =>
                /\ \A j \in 1..Len(noteLines) : noteLines[j].k # "hdr"
                /\ noteLines' = noteLines \o <<Blank, Header, Blank>>
                /\ st'[p].pc = "addRead"
          /\ st[p].pc \in {"addRead", "focsRead"} => noteLines' = noteLines
          /\ (st[p].pc = "addModify" /\ ~AppendSettles(p)) => noteLines' = noteLines
      ]_vars

\* a call of addTaskToTodoSection has added the section and then the task
\* line below it
C33_Witness ==
    LET s == st["manual"]
        w == Good(Calls(s, 1, "modify"))
    IN  /\ s.phases[1].st = "ret"
        /\ Len(w) = 2 /\ w[1].t = w[2].t
        /\ Len(Good(Calls(s, 1, "addTask"))) = 1
        /\ \E h \in 1..(Len(noteLines) - 1) :
               /\ noteLines[h].k = "hdr"
               /\ noteLines[h + 1] = Line("task", FALSE, <<SP>> \o w[1].t)

\* the step settles a call of updateTaskCompletion of process p with success
MarkSettles(p) ==
    /\ st[p].pc = "updModify"
    /\ Len(st'[p].log) = Len(st[p].log) + 2
    /\ st'[p].log[Len(st'[p].log)].op = "updateTaskCompletion"
    /\ st'[p].log[Len(st'[p].log)].ok

\* C35: the write of a successful updateTaskCompletion(path, lineNumber,
\* date) changes line lineNumber only: it becomes a checked task line that
\* parses to the title it had before and to the completion date given; the
\* note keeps its number of lines and every other line, so every other task
\* is parsed at the same line with the same fields as before.  The read of
\* the call, and a call that fails, change nothing.
C35_MarkFrame ==
    [][\A p \in Procs :
          /\ MarkSettles(p) =>
                LET ln == st'[p].log[Len(st'[p].log)].n + 1
                    date == CompletionDate(st[p].msftTasks[st[p].i].completedDateTime)
                    was == ParseLine(noteLines[ln], ln)
                    now == ParseLine(noteLines'[ln], ln)
                IN  /\ Len(noteLines') = Len(noteLines)
                    /\ ln \in 1..Len(noteLines)
                    /\ CheckboxMatch(noteLines[ln]) /\ CheckboxMatch(noteLines'[ln])
                    /\ now.completed /\ now.completionDate = date
                    /\ now.title = was.title
                    /\ \A j \in 1..Len(noteLines) :
                           j # ln => noteLines'[j] = noteLines[j]
          /\ st[p].pc = "updRead" => noteLines' = noteLines
          /\ (st[p].pc = "updModify" /\ ~MarkSettles(p)) => noteLines' = noteLines
      ]_vars

\* a line that held completion metadata already has been marked completed,
\* and another task line of the note is still unchecked
C35_Witness ==
    LET s == st["manual"]
        u == Good(Calls(s, 3, "updateTaskCompletion"))
    IN  /\ s.pc = "done" /\ Len(u) = 1
        /\ noteLines[u[1].n + 1].chk
        /\ \E i \in 1..Len(s.dailyNoteTasks) :
               /\ s.dailyNoteTasks[i].line = u[1].n
               /\ s.dailyNoteTasks[i].completionDate # 0
        /\ \E j \in 1..Len(noteLines) : noteLines[j].k = "task" /\ ~noteLines[j].chk

\* C36: when updateTaskCompletion(path, lineNumber, date) finds, in the
\* content it has read, that lineNumber is past the last line or that the
\* line is no checkbox line, the call fails: it records its error, makes no
\* write and the note stays as it is.
C36_MarkFailsWithoutWrite ==
    [][\A p \in Procs :
             (st[p].pc = "updRead" /\ st'[p] # st[p]) =>
                LET m == st[p].msftTasks[st[p].i]
                    o == st[p].dailyNoteTasks[FirstWithTitle(st[p].dailyNoteTasks, m.title)]
                    stale == \/ o.line >= Len(noteLines)
                             \/ ~CheckboxMatch(noteLines[o.line + 1])
                    log == st'[p].log
                IN  /\ noteLines' = noteLines
                    /\ stale =>
                          /\ st'[p].pc # "updModify"
                          /\ Len(log) = Len(st[p].log) + 2
                          /\ log[Len(log) - 1].op = "read"
                          /\ log[Len(log)].op = "updateTaskCompletion"
                          /\ ~log[Len(log)].ok /\ log[Len(log)].t = m.title
                          /\ Len(Bad(Calls(st'[p], 3, "updateTaskCompletion")))
                             = Len(Bad(Calls(st[p], 3, "updateTaskCompletion"))) + 1
      ]_vars

\* the only updateTaskCompletion of a syncCompletions failed on a line index
\* past the end of the note, and the note was not written
C36_Witness ==
    LET s == st["manual"]
        u == Calls(s, 3, "updateTaskCompletion")
    IN  /\ s.pc = "done" /\ u # <<>> /\ ~u[1].ok
        /\ Calls(s, 3, "modify") = <<>>
        /\ u[1].n >= Len(noteLines)

\* C37: while a call of the sync callback started by a click has not
\* settled, the in-progress flag of the sidebar button is set and no click
\* has started a second call, also when the delayed reset of an earlier sync
\* fires during the new one.
C37_ButtonSingleFlight ==
    /\ button.running <= 1
    /\ button.running > 0 => button.isSync /\ button.disabled

\* a step that starts a timer-driven performFullSync
TimerSyncStarts == st["timer"].pc = "idle" /\ st'["timer"].pc # "idle"

\* C38: once disconnectAccount has returned, whether saveSettings resolved or
\* rejected, autoSyncInterval holds no timer, and no timer-driven
\* performFullSync starts while the authentication data is cleared.
C38_NoTimerAfterDisconnect ==
    /\ [](plugin.pc = "returned" => ~plugin.autoSyncInterval)
    /\ [][plugin.pc = "returned" /\ ~plugin.accessToken => ~TimerSyncStarts]_vars

\* the calls that change a store for one item
MutationOps == {"modify", "post", "patch"}

\* the mutations logged up to entry i for the item that entry i belongs to
ItemMutations(log, i) ==
    {j \in 1..i : /\ log[j].ph = log[i].ph /\ log[j].op \in MutationOps
                  /\ \A m \in j..(i - 1) : log[m].op \notin ItemCalls}

\* C39: a performFullSync that was called returns its SyncResult when every
\* store call settles, and no item of a phase has more than one mutation
\* issued for it, the one write that adds the todo section before the first
\* task line of phase 1 apart.
C39_Terminates ==
    /\ (st["manual"].pc # "idle") ~> st["manual"].ret.set
    /\ [](LET log == st["manual"].log
          IN  \A i \in 1..Len(log) :
                  Cardinality(ItemMutations(log, i)) <=
                      IF log[i].ph = 1 THEN 2 ELSE 1)

====
